---- MODULE Spec2Model ----
(***************************************************************************)
(* SkladBot: debtor-notification bot.                                      *)
(*                                                                         *)
(* The parts of the program are modelled each with a specification of its  *)
(* own over the module's variables:                                        *)
(*   SpecRL / FairSpecRL / SpecRLWindow                                    *)
(*                        the rate limiter (src/utils/rateLimiter.js)      *)
(*   SpecSched / FairSpecSched                                             *)
(*                        the reminder scheduler (cron/sender.cron.js)     *)
(*   SpecSweep / FairSpecSweep                                             *)
(*                        its sweeps with every user active                *)
(*   SpecReminders        a sweep with the admin's reminder requests       *)
(*                        (routes/admin.routes.js)                         *)
(*   SpecLookup           the cache-through balance lookup                 *)
(*                        (services/moysklad.service.js, models/Cache.js)  *)
(*   SpecCacheTTL         the lookup with the CACHE_TTL setting and        *)
(*                        process restarts                                 *)
(*   SpecStats            the statistics collection (models/Statistics.js) *)
(*   SpecSendTime         the send time as text, posted and compared       *)
(*   SpecBroadcast / FairSpecBroadcast                                     *)
(*                        the broadcasts (routes/admin.routes.js)          *)
(*   SpecListing          the paged counterparty listing                   *)
(*                        (services/moysklad.service.js)                   *)
(*   SpecPhone            User.normalizePhone (models/User.js)             *)
(* A specification leaves the variables of the other parts unchanged.      *)
(***************************************************************************)
EXTENDS Integers, Sequences, FiniteSets, TLC

(***************************************************************************)
(* Bounds of the model.                                                    *)
(***************************************************************************)
\* number of schedule() calls explored
MaxTasks == 3
\* caps explored for new RateLimiter(maxPerSecond): 1..MaxCap
MaxCap == 2
\* granularity at which the passing of time is observed, in ms
TimeStep == 200

(***************************************************************************)
(* Program constants.                                                      *)
(***************************************************************************)
\* rateLimiter.js:45  if (elapsed >= 1000)
WindowMs == 1000
\* rateLimiter.js:70  await this.sleep(40)
SpacingMs == 40

Min(a, b) == IF a < b THEN a ELSE b
Max(a, b) == IF a > b THEN a ELSE b
Abs(x) == IF x < 0 THEN -x ELSE x
\* JavaScript's null
Null == [null |-> TRUE]

(***************************************************************************)
(* RATE LIMITER  (src/src/utils/rateLimiter.js)                            *)
(*                                                                         *)
(* queue, processing, sentInCurrentSecond, maxPerSecond are the object's    *)
(* fields.  The code reads the clock only as                               *)
(*   elapsed = Date.now() - this.currentSecondStart                        *)
(* so the model keeps `elapsed` (saturated at WindowMs: the code only      *)
(* tests elapsed >= 1000 and uses 1000 - elapsed below it) instead of the  *)
(* two absolute instants.  rlpc is the position of the one processQueue    *)
(* coroutine: "idle" (no loop), "limitWait" (line 53), "running" (line 62, *)
(* awaiting the task), "spacing" (line 70), "dead" (loop ended by an      *)
(* uncaught error; unreachable in the code as written).  timer is the time *)
(* left on the pending setTimeout.                                         *)
(* History: submitted (number of schedule() calls), started (task ids in   *)
(* the order their execution started), taskDid (what each task did),       *)
(* promise (what each schedule() promise was settled with), recent (ages   *)
(* of the task starts of the last WindowMs), arrivedAt (loop position at   *)
(* the time of each schedule() call).  recent is recorded only where       *)
(* trackWindow holds (specification SpecRLWindow); trackWindow never       *)
(* changes and no action of the program reads it.                          *)
(* A timer fires no earlier than its                                       *)
(* delay: time passes in steps of TimeStep and a due timer may fire late.  *)
(***************************************************************************)
VARIABLES queue, processing, sentInCurrentSecond, maxPerSecond, elapsed,
          rlpc, timer, current, submitted, started, taskDid, promise,
          recent, arrivedAt, trackWindow

rlVars == <<queue, processing, sentInCurrentSecond, maxPerSecond, elapsed,
            rlpc, timer, current, submitted, started, taskDid, promise,
            recent, arrivedAt, trackWindow>>

\* the scheduler's state (described with the scheduler below)
VARIABLES isRunning, minute, sendTime, users, ex, statsSent, sweepLog,
          statsLog

schedVars == <<isRunning, minute, sendTime, users, ex, statsSent, sweepLog,
               statsLog>>

\* the cache's and the balance lookup's state (described with the lookup below)
VARIABLES cache, now, cacheTTL, call, lastSet, ttlSetting, ttlReq

lookupVars == <<cache, now, cacheTTL, call, lastSet, ttlSetting, ttlReq>>

\* the broadcasts' state (described with the broadcasts below)
VARIABLES bdoc, sreq, run

bcVars == <<bdoc, sreq, run>>

\* the counterparty listing's state (described with the listing below)
VARIABLES pg, srv

pageVars == <<pg, srv>>

\* the phone normalization's state (described with it below)
VARIABLES ph

phoneVars == <<ph>>

\* the admin's reminder request in flight (described with the requests below)
VARIABLES adm

admVars == <<adm>>

\* the statistics collection's state (described with it below)
VARIABLES stcoll, today, gt

statVars == <<stcoll, today, gt>>

\* the send-time setting as text (described with it below)
VARIABLES tm

timeVars == <<tm>>

vars == <<rlVars, schedVars, lookupVars, bcVars, pageVars, phoneVars, admVars,
          statVars, timeVars>>

TaskIds == 1..MaxTasks

Pending == [state |-> "pending", payload |-> 0]

\* constructor (lines 8-15)
RLInit ==
    /\ maxPerSecond \in 1..MaxCap
    /\ trackWindow \in BOOLEAN
    /\ queue = <<>>
    /\ processing = FALSE
    /\ sentInCurrentSecond = 0
    /\ elapsed = 0
    /\ rlpc = "idle"
    /\ timer = 0
    /\ current = 0
    /\ submitted = 0
    /\ started = <<>>
    /\ taskDid = [t \in TaskIds |-> "none"]
    /\ promise = [t \in TaskIds |-> Pending]
    /\ recent = <<>>
    /\ arrivedAt = [t \in TaskIds |-> "none"]

\* line 24: this.queue.push({ task, resolve, reject })
Enqueue(q, t) == Append(q, t)

\* (mutation of ShouldStartLoop: the processing flag not looked at)
ShouldStartLoopAlways(proc) == TRUE

\* line 26: if (!this.processing) this.processQueue()   (and line 36)
ShouldStartLoop(proc) == ~proc

\* line 40: while (this.queue.length > 0)
LoopContinues(q) == Len(q) > 0

\* (mutation of ProcessingAfterDrain: line 73 left out)
ProcessingStaysSet == TRUE

\* line 73: this.processing = false
ProcessingAfterDrain == FALSE

\* (mutation of Shift: pop() in place of shift())
ShiftLast(q) == [task |-> q[Len(q)], rest |-> SubSeq(q, 1, Len(q) - 1)]

\* line 59: this.queue.shift()
Shift(q) == [task |-> Head(q), rest |-> Tail(q)]

\* line 45: if (elapsed >= 1000)
WindowElapsed(el) == el >= WindowMs

\* line 51: if (this.sentInCurrentSecond >= this.maxPerSecond)
LimitReached(sent) == sent >= maxPerSecond

\* (mutation of TaskOutcome: no try/catch, a throwing task ends the loop
\* and its promise is never settled)
TaskOutcomeNoCatch(t, did) ==
    IF did = "ok"
    THEN [counted |-> 1, promise |-> [state |-> "resolved", payload |-> t],
          goesOn |-> TRUE]
    ELSE [counted |-> 0, promise |-> [state |-> "pending", payload |-> 0],
          goesOn |-> FALSE]

\* lines 61-67: the try/catch around the task.  did is "ok" (the task
\* returned its value, here its own id) or "throw" (it threw its error).
\* counted: sentInCurrentSecond++ (line 63, success only); promise: what
\* resolve/reject deliver; goesOn: the loop reaches line 70.
TaskOutcome(t, did) ==
    IF did = "ok"
    THEN [counted |-> 1, promise |-> [state |-> "resolved", payload |-> t],
          goesOn |-> TRUE]
    ELSE [counted |-> 0, promise |-> [state |-> "rejected", payload |-> t],
          goesOn |-> TRUE]

\* lines 59-62: take the next entry and call its task
StartNext(q, sent, el) ==
    LET s == Shift(q) IN
    /\ queue' = s.rest
    /\ current' = s.task
    /\ started' = Append(started, s.task)
    /\ recent' = IF trackWindow THEN Append(recent, 0) ELSE recent
    /\ sentInCurrentSecond' = sent
    /\ elapsed' = el
    /\ processing' = TRUE
    /\ rlpc' = "running"
    /\ timer' = 0

\* lines 40-62: one pass from the loop test to the first await, with q the
\* queue, sent the counter and el the elapsed time the pass sees
DrainStep(q, sent, el) ==
    IF ~LoopContinues(q)
    THEN \* line 73
         /\ processing' = ProcessingAfterDrain
         /\ rlpc' = "idle"
         /\ queue' = q
         /\ sentInCurrentSecond' = sent
         /\ elapsed' = el
         /\ timer' = 0
         /\ current' = 0
         /\ UNCHANGED <<started, recent>>
    ELSE LET reset == WindowElapsed(el)
             sent1 == IF reset THEN 0 ELSE sent
             el1   == IF reset THEN 0 ELSE el
         IN  IF LimitReached(sent1)
             THEN \* lines 52-53: await this.sleep(1000 - elapsed)
                  /\ processing' = TRUE
                  /\ rlpc' = "limitWait"
                  /\ timer' = Max(WindowMs - el, 0)
                  /\ queue' = q
                  /\ sentInCurrentSecond' = sent1
                  /\ elapsed' = el1
                  /\ current' = 0
                  /\ UNCHANGED <<started, recent>>
             ELSE StartNext(q, sent1, el1)

\* schedule(task), lines 22-30: the promise executor runs synchronously
Schedule ==
    /\ submitted < MaxTasks
    /\ LET t == submitted + 1
           q == Enqueue(queue, t)
       IN  /\ submitted' = t
           /\ arrivedAt' = [arrivedAt EXCEPT ![t] =
                  IF rlpc = "spacing" /\ queue = <<>> THEN "lastSleep"
                  ELSE rlpc]
           /\ IF ShouldStartLoop(processing)
              THEN DrainStep(q, sentInCurrentSecond, elapsed)
              ELSE /\ queue' = q
                   /\ UNCHANGED <<processing, sentInCurrentSecond, elapsed,
                                  rlpc, timer, current, started, recent>>
    /\ UNCHANGED <<maxPerSecond, taskDid, promise, trackWindow>>
    /\ UNCHANGED <<schedVars, lookupVars, bcVars, pageVars, phoneVars,
                   admVars, statVars, timeVars>>

\* lines 53-56: the limit sleep is over
WakeLimit ==
    /\ rlpc = "limitWait"
    /\ timer = 0
    /\ StartNext(queue, 0, 0)
    /\ UNCHANGED <<maxPerSecond, submitted, taskDid, promise, arrivedAt,
                   trackWindow>>
    /\ UNCHANGED <<schedVars, lookupVars, bcVars, pageVars, phoneVars,
                   admVars, statVars, timeVars>>

\* lines 62-70: the awaited task settles
TaskSettle ==
    /\ rlpc = "running"
    /\ \E did \in {"ok", "throw"} :
         LET o == TaskOutcome(current, did) IN
         /\ taskDid' = [taskDid EXCEPT ![current] = did]
         /\ promise' = [promise EXCEPT ![current] = o.promise]
         /\ sentInCurrentSecond' = sentInCurrentSecond + o.counted
         /\ rlpc' = IF o.goesOn THEN "spacing" ELSE "dead"
         /\ timer' = IF o.goesOn THEN SpacingMs ELSE 0
    /\ current' = 0
    /\ UNCHANGED <<queue, processing, maxPerSecond, elapsed, submitted,
                   started, recent, arrivedAt, trackWindow>>
    /\ UNCHANGED <<schedVars, lookupVars, bcVars, pageVars, phoneVars,
                   admVars, statVars, timeVars>>

\* line 70 is over: back to the loop test
WakeSpacing ==
    /\ rlpc = "spacing"
    /\ timer = 0
    /\ DrainStep(queue, sentInCurrentSecond, elapsed)
    /\ UNCHANGED <<maxPerSecond, submitted, taskDid, promise, arrivedAt,
                   trackWindow>>
    /\ UNCHANGED <<schedVars, lookupVars, bcVars, pageVars, phoneVars,
                   admVars, statVars, timeVars>>

RECURSIVE Aged(_, _)
Aged(ages, d) ==
    IF ages = <<>> THEN <<>>
    ELSE IF Head(ages) + d >= WindowMs THEN Aged(Tail(ages), d)
         ELSE <<Head(ages) + d>> \o Aged(Tail(ages), d)

\* the clock moves on by TimeStep
AdvanceTime ==
    /\ elapsed' = Min(elapsed + TimeStep, WindowMs)
    /\ timer' = Max(timer - TimeStep, 0)
    /\ recent' = IF trackWindow THEN Aged(recent, TimeStep) ELSE recent
    /\ UNCHANGED <<queue, processing, sentInCurrentSecond, maxPerSecond,
                   rlpc, current, submitted, started, taskDid, promise,
                   arrivedAt, trackWindow>>
    /\ UNCHANGED <<schedVars, lookupVars, bcVars, pageVars, phoneVars,
                   admVars, statVars, timeVars>>

RLNext == Schedule \/ WakeLimit \/ TaskSettle \/ WakeSpacing \/ AdvanceTime

(***************************************************************************)
(* REMINDER SCHEDULER  (src/unnamed/part_003: cron/sender.cron.js)         *)
(*                                                                         *)
(* node-cron calls execute() once a minute and does not wait for the       *)
(* previous call.  ex[i] is one call of execute(): pc is its position      *)
(* ("new": not called; "settings": awaiting Settings.get, line 125;        *)
(* "findUsers": line 147; "lookup": processUser awaiting                   *)
(* getCounterpartyByPhone, line 52; "send": awaiting rateLimiter.schedule, *)
(* line 77; "save": awaiting user.save, line 95; "stats": awaiting         *)
(* Statistics.updateStats, line 178; "done").  The balance lookup and the  *)
(* rate-limited send are seen here by their results only.                  *)
(***************************************************************************)
\* calls of execute() that may be in flight together
MaxExecs == 2
\* cron ticks explored
MaxMinute == 3
\* registered users
MaxUsers == 2
\* the most users active at startup where ticks, admin updates and sweeps
\* are explored together (SpecSched)
MaxActive == 1
\* minutes in the (scaled) day: HH:mm values are 0..DayLen-1
DayLen == 2

ExecIds == 1..MaxExecs
UserIds == 1..MaxUsers

Days == 0..(MaxMinute \div DayLen)

\* no updateStats made yet
NoUpdate == [day |-> -1, sent |-> 0, before |-> 0]

\* the calendar day (Asia/Tashkent) that minute m lies in
Day(m) == m \div DayLen

\* what getCounterpartyByPhone may return to a reminder sender: null or a
\* record, seen by its balance
LookupResults == {Null} \cup {[balance |-> b] : b \in {-150, 0, 150}}

\* no lookup made (yet) for the user at hand
NoLookup == [none |-> TRUE]

\* one call of execute().  tick: the minute of the call; currentTime and
\* target: the locals currentTime (line 122) and globalSendTime (line 125,
\* -1 before it is read).  History of the sweep: processed (processUser
\* results taken), notFound (results with reason not_found), sendErrors
\* (results with reason send_failed), undelivered (the users whose
\* sendDebtReminder call returned false).  cp and amount are processUser's
\* locals counterparty (line 52) and debtAmount (line 68).
NewExec == [pc |-> "new", currentTime |-> 0, snapshot |-> <<>>, idx |-> 0,
            sent |-> 0, skipped |-> 0, failed |-> 0, outcome |-> "none",
            lookups |-> 0, submits |-> 0,
            tick |-> 0, target |-> -1, processed |-> 0, notFound |-> 0,
            sendErrors |-> 0, undelivered |-> {},
            cp |-> NoLookup, amount |-> 0]

\* constructor (lines 14-17); the users and the setting are what the
\* database holds at startup.  statsSent[d] is messages_sent_today of the
\* Statistics record of day d.  History: sweepLog[d] is the number of calls
\* made on day d that went past the time comparison of line 136; statsLog
\* is the latest updateStats of a sweep (its day, the count handed over,
\* the value stored before).
SchedInit ==
    /\ isRunning = FALSE
    /\ minute = 0
    /\ sendTime \in 0..(DayLen - 1)
    /\ users \in [UserIds -> [is_active : BOOLEAN, last_sent_at : {-1}]]
    /\ ex = [i \in ExecIds |-> NewExec]
    /\ statsSent = [d \in Days |-> 0]
    /\ sweepLog = [d \in Days |-> 0]
    /\ statsLog = NoUpdate

\* getCurrentTime (lines 22-36): the wall clock's HH:mm
GetCurrentTime(m) == m % DayLen

\* (mutation of GuardBlocks: the re-entrancy guard left out)
GuardBlocksNever(running) == FALSE

\* line 114: if (this.isRunning) return
GuardBlocks(running) == running

\* (mutation of TimeMatches: the send time not compared)
TimeMatchesAlways(currentTime, globalSendTime) == TRUE

\* line 136: if (currentTime !== globalSendTime) return
TimeMatches(currentTime, globalSendTime) == currentTime = globalSendTime

\* User.findActiveUsers (User.js:100-104), as the documents read
RECURSIVE ActiveUsersFrom(_)
ActiveUsersFrom(u) ==
    IF u > MaxUsers THEN <<>>
    ELSE IF users[u].is_active
         THEN <<[id |-> u, is_active |-> TRUE]>> \o ActiveUsersFrom(u + 1)
         ELSE ActiveUsersFrom(u + 1)

FindActiveUsers == ActiveUsersFrom(1)

\* lines 165-174: the sweep's counters after one processUser result
Counted(e, success, reason) ==
    IF success THEN [e EXCEPT !.sent = @ + 1]
    ELSE IF reason = "no_debt" \/ reason = "inactive"
         THEN [e EXCEPT !.skipped = @ + 1]
         ELSE [e EXCEPT !.failed = @ + 1]

\* line 163 and lines 165-174: processUser's result taken and counted
\* (processUser has returned: its locals are gone)
Recorded(e, success, reason) ==
    [Counted(e, success, reason) EXCEPT
        !.cp = NoLookup, !.amount = 0,
        !.processed = @ + 1,
        !.notFound = IF reason = "not_found" THEN @ + 1 ELSE @,
        !.sendErrors = IF reason = "send_failed" THEN @ + 1 ELSE @]

\* (mutation of NextUser: the loop is left at the first failed result)
NextUserUntilFailure(e) ==
    IF e.idx < Len(e.snapshot) /\ e.failed = 0
    THEN [e EXCEPT !.idx = @ + 1, !.pc = "lookup"]
    ELSE [e EXCEPT !.pc = "stats"]

\* lines 162-178: on to the next user, or to the statistics update
NextUser(e) ==
    IF e.idx < Len(e.snapshot)
    THEN [e EXCEPT !.idx = @ + 1, !.pc = "lookup"]
    ELSE [e EXCEPT !.pc = "stats"]

\* (mutation of ProcessUserCheck: a zero balance taken for a debt)
ProcessUserCheckLax(counterparty) ==
    IF counterparty = Null THEN "not_found"
    ELSE IF counterparty.balance > 0 THEN "no_debt"
    ELSE "debt"

\* processUser lines 56-65: the tests of the lookup's result
ProcessUserCheck(counterparty) ==
    IF counterparty = Null THEN "not_found"
    ELSE IF counterparty.balance >= 0 THEN "no_debt"
    ELSE "debt"

\* line 68 (and part_004:362, 790): Math.abs(counterparty.balance)
DebtAmount(counterparty) == Abs(counterparty.balance)

\* what bot.telegram.sendMessage may do (Cache.js:754)
TelegramOutcomes == {"delivered", "blocked", "error"}

\* TelegramBot.sendDebtReminder (Cache.js:727-770): true when the message
\* went out; any error is caught (line 760) and false is returned
SendDebtReminder(tg) == tg = "delivered"

\* the task handed to rateLimiter.schedule (lines 77-85): it awaits
\* sendDebtReminder and drops the value; nothing in it throws
ReminderTask(tg) ==
    IF SendDebtReminder(tg) \in BOOLEAN THEN "ok" ELSE "throw"

\* lines 75-90: sent is true when the promise of schedule resolved
SentFlag(tg) == TaskOutcome(0, ReminderTask(tg)).promise.state = "resolved"

\* (mutation of UpdateStats: the count added to the stored one)
UpdateStatsAdding(old, data) == old + data

\* Statistics.updateStats (Statistics.js:74-83): findOneAndUpdate sets the
\* fields given
UpdateStats(old, data) == data

\* (mutation of Finally: no finally block)
NoFinally(running) == running

\* lines 189-191: finally { this.isRunning = false }, reached from the end
\* of the try block and from the catch of line 187
Finally(running) == FALSE

\* the cron callback (lines 218-222) calling execute(), lines 112-122
CronTick(i) ==
    /\ ex[i].pc \in {"new", "done"}
    /\ \A j \in 1..(i - 1) : ex[j].pc \notin {"new", "done"}
    /\ minute < MaxMinute
    /\ minute' = minute + 1
    /\ IF GuardBlocks(isRunning)
       THEN /\ ex' = [ex EXCEPT ![i] =
                        [NewExec EXCEPT !.pc = "done",
                                        !.outcome = "skipped_running"]]
            /\ UNCHANGED isRunning
       ELSE /\ isRunning' = TRUE
            /\ ex' = [ex EXCEPT ![i] =
                        [NewExec EXCEPT !.pc = "settings",
                                        !.tick = minute',
                                        !.currentTime = GetCurrentTime(minute')]]
    /\ UNCHANGED <<sendTime, users, statsSent, sweepLog, statsLog>>
    /\ UNCHANGED <<rlVars, lookupVars, bcVars, pageVars, phoneVars, admVars,
                   statVars, timeVars>>

\* lines 125-139: Settings.get answers (or throws: lines 187-191)
SettingsGet(i) ==
    /\ ex[i].pc = "settings"
    /\ \E threw \in BOOLEAN :
         IF threw
         THEN /\ ex' = [ex EXCEPT ![i].pc = "done", ![i].outcome = "error"]
              /\ isRunning' = Finally(isRunning)
              /\ UNCHANGED sweepLog
         ELSE IF ~TimeMatches(ex[i].currentTime, sendTime)
              THEN /\ ex' = [ex EXCEPT ![i].pc = "done",
                                       ![i].outcome = "mismatch",
                                       ![i].target = sendTime]
                   /\ isRunning' = FALSE
                   /\ UNCHANGED sweepLog
              ELSE /\ ex' = [ex EXCEPT ![i].pc = "findUsers",
                                       ![i].target = sendTime]
                   /\ sweepLog' = [sweepLog EXCEPT ![Day(ex[i].tick)] = @ + 1]
                   /\ UNCHANGED isRunning
    /\ UNCHANGED <<minute, sendTime, users, statsSent, statsLog>>
    /\ UNCHANGED <<rlVars, lookupVars, bcVars, pageVars, phoneVars, admVars,
                   statVars, timeVars>>

\* lines 147-160: User.findActiveUsers answers (or throws: lines 187-191)
FindUsers(i) ==
    /\ ex[i].pc = "findUsers"
    /\ \E threw \in BOOLEAN :
         LET found == FindActiveUsers IN
         IF threw
         THEN /\ ex' = [ex EXCEPT ![i].pc = "done", ![i].outcome = "error"]
              /\ isRunning' = Finally(isRunning)
         ELSE IF Len(found) = 0
              THEN /\ ex' = [ex EXCEPT ![i].pc = "done",
                                       ![i].outcome = "no_users"]
                   /\ isRunning' = FALSE
              ELSE /\ ex' = [ex EXCEPT ![i] =
                               NextUser([@ EXCEPT !.snapshot = found])]
                   /\ UNCHANGED isRunning
    /\ UNCHANGED <<minute, sendTime, users, statsSent, sweepLog, statsLog>>
    /\ UNCHANGED <<rlVars, lookupVars, bcVars, pageVars, phoneVars, admVars,
                   statVars, timeVars>>

\* processUser lines 43-71: the active check, then the balance lookup
Lookup(i) ==
    /\ ex[i].pc = "lookup"
    /\ LET e == ex[i]
           u == e.snapshot[e.idx]
       IN  IF ~u.is_active
           THEN ex' = [ex EXCEPT ![i] = NextUser(Recorded(e, FALSE, "inactive"))]
           ELSE \E counterparty \in LookupResults :
                  LET e1 == [e EXCEPT !.lookups = @ + 1, !.cp = counterparty]
                      res == ProcessUserCheck(counterparty)
                  IN
                  IF res = "debt"
                  THEN ex' = [ex EXCEPT ![i] =
                                [e1 EXCEPT !.amount = DebtAmount(counterparty),
                                           !.pc = "send"]]
                  ELSE ex' = [ex EXCEPT ![i] = NextUser(Recorded(e1, FALSE, res))]
    /\ UNCHANGED <<isRunning, minute, sendTime, users, statsSent, sweepLog,
                   statsLog>>
    /\ UNCHANGED <<rlVars, lookupVars, bcVars, pageVars, phoneVars, admVars,
                   statVars, timeVars>>

\* processUser lines 75-102: the scheduled send settles
Send(i) ==
    /\ ex[i].pc = "send"
    /\ \E tg \in TelegramOutcomes :
         LET e  == ex[i]
             e1 == [e EXCEPT !.submits = @ + 1,
                             !.undelivered =
                                 IF SendDebtReminder(tg) THEN @
                                 ELSE @ \cup {e.snapshot[e.idx].id}]
         IN
         IF SentFlag(tg)
         THEN ex' = [ex EXCEPT ![i] = [e1 EXCEPT !.pc = "save"]]
         ELSE ex' = [ex EXCEPT ![i] = NextUser(Recorded(e1, FALSE, "send_failed"))]
    /\ UNCHANGED <<isRunning, minute, sendTime, users, statsSent, sweepLog,
                   statsLog>>
    /\ UNCHANGED <<rlVars, lookupVars, bcVars, pageVars, phoneVars, admVars,
                   statVars, timeVars>>

\* processUser lines 94-98 (user.save may throw: lines 103-106)
Save(i) ==
    /\ ex[i].pc = "save"
    /\ LET e == ex[i]
           u == e.snapshot[e.idx].id
       IN  \E threw \in BOOLEAN :
             IF threw
             THEN /\ ex' = [ex EXCEPT ![i] = NextUser(Recorded(e, FALSE, "error"))]
                  /\ UNCHANGED users
             ELSE /\ ex' = [ex EXCEPT ![i] = NextUser(Recorded(e, TRUE, "none"))]
                  /\ users' = [users EXCEPT ![u].last_sent_at = minute]
    /\ UNCHANGED <<isRunning, minute, sendTime, statsSent, sweepLog, statsLog>>
    /\ UNCHANGED <<rlVars, lookupVars, bcVars, pageVars, phoneVars, admVars,
                   statVars, timeVars>>

\* lines 178-191: Statistics.updateStats({messages_sent_today: sent}) on
\* the record of the day it runs in
Stats(i) ==
    /\ ex[i].pc = "stats"
    /\ \E threw \in BOOLEAN :
         /\ statsSent' = IF threw THEN statsSent
                         ELSE [statsSent EXCEPT
                                 ![Day(minute)] = UpdateStats(@, ex[i].sent)]
         /\ statsLog' = IF threw THEN statsLog
                        ELSE [day |-> Day(minute), sent |-> ex[i].sent,
                              before |-> statsSent[Day(minute)]]
         /\ ex' = [ex EXCEPT ![i].pc = "done",
                             ![i].outcome = IF threw THEN "error" ELSE "swept"]
    /\ isRunning' = Finally(isRunning)
    /\ UNCHANGED <<minute, sendTime, users, sweepLog>>
    /\ UNCHANGED <<rlVars, lookupVars, bcVars, pageVars, phoneVars, admVars,
                   statVars, timeVars>>

\* POST /admin/settings/send-time (part_004:1088-1118)
AdminSetSendTime ==
    /\ \E t \in 0..(DayLen - 1) : t # sendTime /\ sendTime' = t
    /\ UNCHANGED <<isRunning, minute, users, ex, statsSent, sweepLog, statsLog>>
    /\ UNCHANGED <<rlVars, lookupVars, bcVars, pageVars, phoneVars, admVars,
                   statVars, timeVars>>

SchedNext ==
    \/ \E i \in ExecIds : CronTick(i)
    \/ \E i \in ExecIds : SettingsGet(i)
    \/ \E i \in ExecIds : FindUsers(i)
    \/ \E i \in ExecIds : Lookup(i)
    \/ \E i \in ExecIds : Send(i)
    \/ \E i \in ExecIds : Save(i)
    \/ \E i \in ExecIds : Stats(i)
    \/ AdminSetSendTime

(***************************************************************************)
(* CACHE AND BALANCE LOOKUP                                                *)
(*   (src/src/models/Cache.js, src/src/services/moysklad.service.js)       *)
(*                                                                         *)
(* cache is the "cache" collection: per key the stored document (data,     *)
(* expiresAt) or NoEntry.  now is Date.now() in ms.  cacheTTL is the       *)
(* service's field.  call[i] is one call of getCounterpartyByPhone: pc is  *)
(* its position ("new"; "cacheGet": awaiting Cache.get, line 213;          *)
(* "search": awaiting the phone search, line 53; "detail": awaiting the    *)
(* counterparty fetch, line 103; "report": awaiting the balance report,    *)
(* line 127; "cacheSet": awaiting Cache.set, line 232; "done").            *)
(* History kept per call: the responses it got (search, detail, report),   *)
(* the cache document its Cache.get found and when, the numbers of API     *)
(* report row (rows), the numbers of API                                   *)
(* requests, cache reads and cache writes it made.  lastSet[k] is the      *)
(* latest Cache.set on key k that no delete followed: value, time, ttl.    *)
(* ttlSetting is the value of the CACHE_TTL document of the settings       *)
(* collection (NoSetting: none) and ttlReq the POST /admin/settings/system *)
(* request in flight.                                                      *)
(***************************************************************************)
\* calls of getCounterpartyByPhone in flight together (a finished call's
\* slot is used again)
MaxCalls == 1
\* the clock moves MaxClockSteps times, by ClockStepMs each
MaxClockSteps == 2
ClockStepMs == 150000

\* moysklad.service.js:12  this.cacheTTL = 300
DefaultCacheTTL == 300
\* Cache.js:59  ttlSeconds * 1000
MsPerSecond == 1000
\* moysklad.service.js:138  balance / 100
MinorPerUnit == 100

CallIds == 1..MaxCalls

\* the values POST /admin/settings/system is given for cache_ttl_hours
\* (1..TtlHoursGiven of the 1..48 it accepts)
TtlHoursGiven == 2
TtlHours == 1..TtlHoursGiven
\* part_004:1134: parseInt(cache_ttl_hours) * 3600
SecondsPerHour == 3600
\* no document with key CACHE_TTL in the settings collection
NoSetting == -1
\* no POST /admin/settings/system between its Settings.set and line 1144
NoTtlReq == [pc |-> "idle", seconds |-> 0]
\* the phone numbers looked up; lookups of different phones share no state
Phones == {1}

\* null, and "no document"
NoEntry == [absent |-> TRUE]


RECURSIVE Gcd(_, _)
Gcd(a, b) == IF b = 0 THEN a ELSE Gcd(b, a % b)

\* the number n / d (d > 0), in lowest terms
Quot(n, d) ==
    LET g == Gcd(Abs(n), d) IN [num |-> n \div g, den |-> d \div g]

\* line 138, 167, 171: x / 100
Div100(x) == Quot(x, MinorPerUnit)

\* line 209: `counterparty:${phone}`
CacheKey(p) == <<"counterparty", p>>

CacheKeys == {CacheKey(p) : p \in Phones}

\* (mutation of CacheGet: the expiresAt condition left out of the query)
CacheGetNoExpiry(c, k, t) ==
    IF c[k] # NoEntry THEN c[k].data ELSE Null

\* Cache.get (Cache.js:44-55): findOne({key, expiresAt: {$gt: new Date()}})
CacheGet(c, k, t) ==
    IF c[k] # NoEntry /\ c[k].expiresAt > t THEN c[k].data ELSE Null

\* Cache.set (Cache.js:58-76): upsert with expiresAt = now + ttlSeconds * 1000
CacheSet(c, k, data, ttlSeconds, t) ==
    [c EXCEPT ![k] = [data |-> data, expiresAt |-> t + ttlSeconds * MsPerSecond]]

\* (mutation of UsesCache: the flag ignored)
UsesCacheAlways(useCache) == TRUE

\* line 212: if (useCache)
UsesCache(useCache) == useCache

\* (mutation of CacheHit: the cached value never used)
CacheHitNever(cached) == FALSE

\* line 214: if (cached)
CacheHit(cached) == cached # Null

\* (mutation of FindCounterpartyByPhone: neither response.ok nor the row
\* count is tested)
FindIgnoringStatus(p, resp) ==
    IF resp.status = "neterr" THEN Null ELSE [id |-> p]

\* findCounterpartyByPhone (lines 41-86): the search response to its result
FindCounterpartyByPhone(p, resp) ==
    IF resp.status = "neterr" THEN Null
    ELSE IF resp.status # "ok" THEN Null
    ELSE IF resp.rows = 0 THEN Null
    ELSE [id |-> p]

\* line 223: if (!basicInfo || !basicInfo.id) return null
HasBasicInfo(b) == b # Null

\* lines 137, 171: counterparty.accounts?.[0]?.balance || 0
FirstAccountBalance(accounts) ==
    IF Len(accounts) = 0 THEN 0 ELSE accounts[1]

\* (mutation of StatusOf: a positive balance not told from a zero one)
StatusNoCreditor(b) ==
    IF b.num < 0 THEN "debtor" ELSE "ok"

\* lines 147-152 and 176-181
StatusOf(b) ==
    IF b.num < 0 THEN "debtor" ELSE IF b.num > 0 THEN "creditor" ELSE "ok"

\* lines 142-154 and 187-194
Normalized(id, cp, balance) ==
    [id |-> id, name |-> id, phone |-> id, balance |-> balance,
     status |-> StatusOf(balance), isBlocked |-> cp.archived]

\* (mutation of FallbackDetails: the account balance not divided by 100)
FallbackNoDivision(id, cp) ==
    Normalized(id, cp, Quot(FirstAccountBalance(cp.accounts), 1))

\* lines 132-155: the report request answered with a non-2xx status
FallbackDetails(id, cp) ==
    Normalized(id, cp, Div100(FirstAccountBalance(cp.accounts)))

\* lines 157-194: the report answered; rows holds this counterparty's row
ReportDetails(id, cp, rows) ==
    Normalized(id, cp,
               IF Len(rows) > 0 THEN Div100(rows[1])
               ELSE Div100(FirstAccountBalance(cp.accounts)))

\* getCounterpartyDetails after the counterparty fetch succeeded
\* (lines 123-198), by the report response
DetailsAfterReport(id, cp, rep) ==
    IF rep.status = "neterr" THEN Null
    ELSE IF rep.status # "ok" THEN FallbackDetails(id, cp)
    ELSE ReportDetails(id, cp, rep.rows)

\* line 231: if (fullDetails && useCache)
ShouldCache(fullDetails, useCache) == fullDetails # Null /\ useCache

SearchResponses ==
    {[status |-> "ok", rows |-> 1], [status |-> "ok", rows |-> 0],
     [status |-> "non2xx", rows |-> 0], [status |-> "neterr", rows |-> 0]}

NoCounterparty == [archived |-> FALSE, accounts |-> <<>>]

\* the accounts embedded in a counterparty, by their balances
AccountLists == {<<>>, <<-150>>}

DetailResponses ==
    {[status |-> "ok", cp |-> [archived |-> FALSE, accounts |-> acc]] :
        acc \in AccountLists}
    \cup {[status |-> "ok", cp |-> [archived |-> TRUE, accounts |-> <<-150>>]]}
    \cup {[status |-> st, cp |-> NoCounterparty] : st \in {"non2xx", "neterr"}}

\* the report's row of the counterparty, by its balance (<<>>: no row)
ReportResponses ==
    {[status |-> "ok", rows |-> r] : r \in {<<>>, <<-5000000>>, <<150>>}}
    \cup {[status |-> st, rows |-> <<>>] : st \in {"non2xx", "neterr"}}

NewCall == [pc |-> "new", phone |-> 0, useCache |-> FALSE, basic |-> Null,
            cp |-> NoCounterparty, details |-> Null, result |-> Null,
            sawEntry |-> NoEntry, readAt |-> 0,
            search |-> "none", detail |-> "none", report |-> "none",
            rows |-> <<>>, ttl |-> 0,
            apiCalls |-> 0, cacheReads |-> 0, cacheWrites |-> 0]

\* an empty cache collection and the service as constructed (lines 9-13)
LookupInit ==
    /\ cache = [k \in CacheKeys |-> NoEntry]
    /\ now = 0
    /\ cacheTTL = DefaultCacheTTL
    /\ call = [i \in CallIds |-> NewCall]
    /\ lastSet = [k \in CacheKeys |-> NoEntry]
    /\ ttlSetting = NoSetting
    /\ ttlReq = NoTtlReq

\* getCounterpartyByPhone(phone, useCache) is called: lines 207-212
CallLookup(i) ==
    /\ call[i].pc = "new"
    /\ \A j \in 1..(i - 1) : call[j].pc # "new"
    /\ \E p \in Phones, uc \in BOOLEAN :
         call' = [call EXCEPT ![i] =
                    [NewCall EXCEPT !.phone = p, !.useCache = uc,
                                    !.pc = IF UsesCache(uc) THEN "cacheGet"
                                           ELSE "search"]]
    /\ UNCHANGED <<cache, now, cacheTTL, lastSet, ttlSetting, ttlReq>>
    /\ UNCHANGED <<rlVars, schedVars, bcVars, pageVars, phoneVars, admVars,
                   statVars, timeVars>>

\* lines 213-218: Cache.get answers
CacheGetStep(i) ==
    /\ call[i].pc = "cacheGet"
    /\ LET k == CacheKey(call[i].phone)
           cached == CacheGet(cache, k, now)
           c1 == [call[i] EXCEPT !.sawEntry = cache[k], !.readAt = now,
                                 !.cacheReads = @ + 1]
       IN  IF CacheHit(cached)
           THEN call' = [call EXCEPT ![i] = [c1 EXCEPT !.result = cached,
                                                       !.pc = "done"]]
           ELSE call' = [call EXCEPT ![i] = [c1 EXCEPT !.pc = "search"]]
    /\ UNCHANGED <<cache, now, cacheTTL, lastSet, ttlSetting, ttlReq>>
    /\ UNCHANGED <<rlVars, schedVars, bcVars, pageVars, phoneVars, admVars,
                   statVars, timeVars>>

\* lines 221-225: the phone search answers
SearchStep(i) ==
    /\ call[i].pc = "search"
    /\ \E resp \in SearchResponses :
         LET basicInfo == FindCounterpartyByPhone(call[i].phone, resp)
             c1 == [call[i] EXCEPT !.search = IF resp.status = "ok" /\ resp.rows = 0
                                              THEN "empty" ELSE resp.status,
                                   !.apiCalls = @ + 1,
                                   !.basic = basicInfo]
         IN  IF HasBasicInfo(basicInfo)
             THEN call' = [call EXCEPT ![i] = [c1 EXCEPT !.pc = "detail"]]
             ELSE call' = [call EXCEPT ![i] = [c1 EXCEPT !.result = Null,
                                                         !.pc = "done"]]
    /\ UNCHANGED <<cache, now, cacheTTL, lastSet, ttlSetting, ttlReq>>
    /\ UNCHANGED <<rlVars, schedVars, bcVars, pageVars, phoneVars, admVars,
                   statVars, timeVars>>

\* lines 228-236 when getCounterpartyDetails has its result; the call of
\* Cache.set in line 232 takes the value this.cacheTTL has at that moment
Finish(c, fullDetails) ==
    IF ShouldCache(fullDetails, c.useCache)
    THEN [c EXCEPT !.details = fullDetails, !.ttl = cacheTTL,
                   !.pc = "cacheSet"]
    ELSE [c EXCEPT !.details = fullDetails, !.result = fullDetails,
                   !.pc = "done"]

\* getCounterpartyDetails lines 100-121: the counterparty fetch answers
DetailStep(i) ==
    /\ call[i].pc = "detail"
    /\ \E resp \in DetailResponses :
         LET c1 == [call[i] EXCEPT !.detail = resp.status, !.apiCalls = @ + 1,
                                   !.cp = resp.cp]
         IN  IF resp.status = "ok"
             THEN call' = [call EXCEPT ![i] = [c1 EXCEPT !.pc = "report"]]
             ELSE call' = [call EXCEPT ![i] = Finish(c1, Null)]
    /\ UNCHANGED <<cache, now, cacheTTL, lastSet, ttlSetting, ttlReq>>
    /\ UNCHANGED <<rlVars, schedVars, bcVars, pageVars, phoneVars, admVars,
                   statVars, timeVars>>

\* getCounterpartyDetails lines 127-198: the balance report answers
ReportStep(i) ==
    /\ call[i].pc = "report"
    /\ \E resp \in ReportResponses :
         LET c1 == [call[i] EXCEPT !.report = resp.status, !.apiCalls = @ + 1,
                                   !.rows = resp.rows]
             fullDetails == DetailsAfterReport(c1.basic.id, c1.cp, resp)
         IN  call' = [call EXCEPT ![i] = Finish(c1, fullDetails)]
    /\ UNCHANGED <<cache, now, cacheTTL, lastSet, ttlSetting, ttlReq>>
    /\ UNCHANGED <<rlVars, schedVars, bcVars, pageVars, phoneVars, admVars,
                   statVars, timeVars>>

\* lines 232-236: Cache.set is done
CacheSetStep(i) ==
    /\ call[i].pc = "cacheSet"
    /\ LET k == CacheKey(call[i].phone) IN
       /\ cache' = CacheSet(cache, k, call[i].details, call[i].ttl, now)
       /\ lastSet' = [lastSet EXCEPT ![k] =
                        [value |-> call[i].details, at |-> now,
                         ttl |-> call[i].ttl]]
    /\ call' = [call EXCEPT ![i].result = call[i].details,
                            ![i].cacheWrites = @ + 1,
                            ![i].pc = "done"]
    /\ UNCHANGED <<now, cacheTTL, ttlSetting, ttlReq>>
    /\ UNCHANGED <<rlVars, schedVars, bcVars, pageVars, phoneVars, admVars,
                   statVars, timeVars>>

\* the caller has the result; the slot is free for another call
ReturnCall(i) ==
    /\ call[i].pc = "done"
    /\ call' = [call EXCEPT ![i] = NewCall]
    /\ UNCHANGED <<cache, now, cacheTTL, lastSet, ttlSetting, ttlReq>>
    /\ UNCHANGED <<rlVars, schedVars, bcVars, pageVars, phoneVars, admVars,
                   statVars, timeVars>>

\* the database's TTL monitor (Cache.js:41) deletes an expired document
TtlMonitor ==
    /\ \E k \in CacheKeys :
         /\ cache[k] # NoEntry
         /\ cache[k].expiresAt <= now
         /\ cache' = [cache EXCEPT ![k] = NoEntry]
    /\ UNCHANGED <<now, cacheTTL, call, lastSet, ttlSetting, ttlReq>>
    /\ UNCHANGED <<rlVars, schedVars, bcVars, pageVars, phoneVars, admVars,
                   statVars, timeVars>>

\* POST /admin/clear-cache (part_004:758-768): Cache.clearAll (Cache.js:84-86)
ClearCache ==
    /\ \E k \in CacheKeys : cache[k] # NoEntry
    /\ cache' = [k \in CacheKeys |-> NoEntry]
    /\ lastSet' = [k \in CacheKeys |-> NoEntry]
    /\ UNCHANGED <<now, cacheTTL, call, ttlSetting, ttlReq>>
    /\ UNCHANGED <<rlVars, schedVars, bcVars, pageVars, phoneVars, admVars,
                   statVars, timeVars>>

\* time passes
AdvanceClock ==
    /\ now < MaxClockSteps * ClockStepMs
    /\ now' = now + ClockStepMs
    /\ UNCHANGED <<cache, cacheTTL, call, lastSet, ttlSetting, ttlReq>>
    /\ UNCHANGED <<rlVars, schedVars, bcVars, pageVars, phoneVars, admVars,
                   statVars, timeVars>>

\* POST /admin/settings/system, lines 1124-1141: the value is valid and
\* Settings.set (part_005:48-55) has stored it
SettingsSystemStore ==
    /\ ttlReq.pc = "idle"
    /\ \E h \in TtlHours :
         LET cacheSeconds == h * SecondsPerHour IN
         /\ ttlSetting' = cacheSeconds
         /\ ttlReq' = [pc |-> "stored", seconds |-> cacheSeconds]
    /\ UNCHANGED <<cache, now, cacheTTL, call, lastSet>>
    /\ UNCHANGED <<rlVars, schedVars, bcVars, pageVars, phoneVars, admVars,
                   statVars, timeVars>>

\* POST /admin/settings/system, line 1144, after the await of Settings.set
SettingsSystemApply ==
    /\ ttlReq.pc = "stored"
    /\ cacheTTL' = ttlReq.seconds
    /\ ttlReq' = NoTtlReq
    /\ UNCHANGED <<cache, now, call, lastSet, ttlSetting>>
    /\ UNCHANGED <<rlVars, schedVars, bcVars, pageVars, phoneVars, admVars,
                   statVars, timeVars>>

\* the process is started again: the service object is constructed anew
\* (moysklad.service.js:9-13), requests and calls in flight are gone, the
\* database (cache and settings collections) is as it was
Restart ==
    /\ cacheTTL' = DefaultCacheTTL
    /\ call' = [i \in CallIds |-> NewCall]
    /\ ttlReq' = NoTtlReq
    /\ UNCHANGED <<cache, now, lastSet, ttlSetting>>
    /\ UNCHANGED <<rlVars, schedVars, bcVars, pageVars, phoneVars, admVars,
                   statVars, timeVars>>

LookupNext ==
    \/ \E i \in CallIds : CallLookup(i)
    \/ \E i \in CallIds : CacheGetStep(i)
    \/ \E i \in CallIds : SearchStep(i)
    \/ \E i \in CallIds : DetailStep(i)
    \/ \E i \in CallIds : ReportStep(i)
    \/ \E i \in CallIds : CacheSetStep(i)
    \/ \E i \in CallIds : ReturnCall(i)
    \/ TtlMonitor
    \/ ClearCache
    \/ AdvanceClock

(***************************************************************************)
(* THE ADMIN'S REMINDER REQUESTS  (src/unnamed/part_004: POST              *)
(* /admin/users/:id/send, lines 316-390; POST /admin/send-reminders, lines *)
(* 774-826)                                                                *)
(*                                                                         *)
(* adm is the one request of this kind in flight (the admin sends them one *)
(* after the other): kind "none", "one" (reminder to one user) or "all"    *)
(* (reminders to all debtors).  pc is its position: "lookup" (awaiting     *)
(* getCounterpartyByPhone, lines 343 and 783), "send" (awaiting            *)
(* sendDebtReminder, line 363, or rateLimiter.schedule, line 792), "save"  *)
(* (awaiting user.save, line 374), "stats" (awaiting updateStats, line     *)
(* 812), "done".  doc is the user document read (kind "one"), snapshot and *)
(* idx the users found and the one at hand (kind "all"), cp and amount the *)
(* locals counterparty and debtAmount; n counts the requests made.         *)
(***************************************************************************)
\* reminder requests the admin makes
MaxAdmReqs == 1

NoAdm == [kind |-> "none", pc |-> "idle", doc |-> NoLookup, snapshot |-> <<>>,
          idx |-> 0, cp |-> NoLookup, amount |-> 0,
          sentCount |-> 0, failedCount |-> 0, n |-> 0]

AdmInit == adm = NoAdm

\* part_004:350-362: the tests of the lookup's result
SendNowCheck(counterparty) ==
    IF counterparty = Null THEN "not_found"
    ELSE IF counterparty.balance >= 0 THEN "no_debt"
    ELSE "debt"

\* part_004:788: if (counterparty && counterparty.balance < 0)
SendAllCheck(counterparty) ==
    counterparty # Null /\ counterparty.balance < 0

\* part_004:782-810: on to the next user, or to the statistics update
AdmNextUser(a) ==
    IF a.idx < Len(a.snapshot)
    THEN [a EXCEPT !.idx = @ + 1, !.cp = NoLookup, !.amount = 0,
                   !.pc = "lookup"]
    ELSE [a EXCEPT !.cp = NoLookup, !.amount = 0, !.pc = "stats"]

\* POST /admin/users/:id/send, lines 318-334: User.findById answers
SendNowFind ==
    /\ adm.kind = "none"
    /\ adm.n < MaxAdmReqs
    /\ \E u \in UserIds :
         LET user == [id |-> u, is_active |-> users[u].is_active] IN
         adm' = [NoAdm EXCEPT !.kind = "one", !.doc = user, !.n = adm.n + 1,
                              !.pc = IF ~user.is_active THEN "done"
                                     ELSE "lookup"]
    /\ UNCHANGED <<rlVars, schedVars, lookupVars, bcVars, pageVars, phoneVars,
                   statVars, timeVars>>

\* lines 343-362: getCounterpartyByPhone(phone, false) answers
SendNowLookup ==
    /\ adm.kind = "one" /\ adm.pc = "lookup"
    /\ \E counterparty \in LookupResults :
         LET a1 == [adm EXCEPT !.cp = counterparty] IN
         IF SendNowCheck(counterparty) = "debt"
         THEN adm' = [a1 EXCEPT !.amount = DebtAmount(counterparty),
                                !.pc = "send"]
         ELSE adm' = [a1 EXCEPT !.pc = "done"]
    /\ UNCHANGED <<rlVars, schedVars, lookupVars, bcVars, pageVars, phoneVars,
                   statVars, timeVars>>

\* lines 363-371, 382-386: sendDebtReminder answers
SendNowSend ==
    /\ adm.kind = "one" /\ adm.pc = "send"
    /\ \E tg \in TelegramOutcomes :
         adm' = [adm EXCEPT !.pc = IF SendDebtReminder(tg) THEN "save"
                                   ELSE "done"]
    /\ UNCHANGED <<rlVars, schedVars, lookupVars, bcVars, pageVars, phoneVars,
                   statVars, timeVars>>

\* lines 372-381 (user.save may throw: lines 388-394)
SendNowSave ==
    /\ adm.kind = "one" /\ adm.pc = "save"
    /\ \E threw \in BOOLEAN :
         users' = IF threw THEN users
                  ELSE [users EXCEPT ![adm.doc.id].last_sent_at = minute]
    /\ adm' = [adm EXCEPT !.pc = "done"]
    /\ UNCHANGED <<isRunning, minute, sendTime, ex, statsSent, sweepLog,
                   statsLog>>
    /\ UNCHANGED <<rlVars, lookupVars, bcVars, pageVars, phoneVars, statVars,
                   timeVars>>

\* POST /admin/send-reminders, lines 774-782: User.find answers
SendAllFind ==
    /\ adm.kind = "none"
    /\ adm.n < MaxAdmReqs
    /\ LET found == FindActiveUsers IN
       adm' = AdmNextUser([NoAdm EXCEPT !.kind = "all", !.snapshot = found,
                                        !.n = adm.n + 1])
    /\ UNCHANGED <<rlVars, schedVars, lookupVars, bcVars, pageVars, phoneVars,
                   statVars, timeVars>>

\* lines 783-790: getCounterpartyByPhone(phone, false) answers
SendAllLookup ==
    /\ adm.kind = "all" /\ adm.pc = "lookup"
    /\ \E counterparty \in LookupResults :
         LET a1 == [adm EXCEPT !.cp = counterparty] IN
         IF SendAllCheck(counterparty)
         THEN adm' = [a1 EXCEPT !.amount = DebtAmount(counterparty),
                                !.pc = "send"]
         ELSE adm' = AdmNextUser(a1)
    /\ UNCHANGED <<rlVars, schedVars, lookupVars, bcVars, pageVars, phoneVars,
                   statVars, timeVars>>

\* lines 792-808: the scheduled send settles
SendAllSend ==
    /\ adm.kind = "all" /\ adm.pc = "send"
    /\ \E tg \in TelegramOutcomes :
         IF SentFlag(tg)
         THEN adm' = AdmNextUser([adm EXCEPT !.sentCount = @ + 1])
         ELSE adm' = AdmNextUser([adm EXCEPT !.failedCount = @ + 1])
    /\ UNCHANGED <<rlVars, schedVars, lookupVars, bcVars, pageVars, phoneVars,
                   statVars, timeVars>>

\* lines 811-825: Statistics.updateStats({messages_sent_today: sentCount})
SendAllStats ==
    /\ adm.kind = "all" /\ adm.pc = "stats"
    /\ \E threw \in BOOLEAN :
         statsSent' = IF threw THEN statsSent
                      ELSE [statsSent EXCEPT
                              ![Day(minute)] = UpdateStats(@, adm.sentCount)]
    /\ adm' = [adm EXCEPT !.pc = "done"]
    /\ UNCHANGED <<isRunning, minute, sendTime, users, ex, sweepLog, statsLog>>
    /\ UNCHANGED <<rlVars, lookupVars, bcVars, pageVars, phoneVars, statVars,
                   timeVars>>

\* the response is sent; the admin may post another request
AdmReturn ==
    /\ adm.pc = "done"
    /\ adm' = [NoAdm EXCEPT !.n = adm.n]
    /\ UNCHANGED <<rlVars, schedVars, lookupVars, bcVars, pageVars, phoneVars,
                   statVars, timeVars>>

AdmNext ==
    \/ SendNowFind \/ SendNowLookup \/ SendNowSend \/ SendNowSave
    \/ SendAllFind \/ SendAllLookup \/ SendAllSend \/ SendAllStats
    \/ AdmReturn

(***************************************************************************)
(* THE STATISTICS COLLECTION  (src/src/models/Statistics.js)               *)
(*                                                                         *)
(* stcoll is the collection: its documents in the order of their           *)
(* insertion, each with its date (the day's midnight, here the day's       *)
(* number) and its counters.  today is the current day.  gt[k] is one call *)
(* of getTodayStats: idle, or between its findOne (line 62) and its create *)
(* (line 65).  The writers are the statistics refresh (hourly cron, part_004:    *)
(* 18-42; POST /admin/refresh-stats, lines 728-745; GET                    *)
(* /admin/api/dashboard-data, lines 585-618), which hands over the six     *)
(* aggregates, and the reminder senders (part_003:178, part_004:812),      *)
(* which hand over messages_sent_today.  last_updated, which every update  *)
(* sets, is left out.                                                      *)
(***************************************************************************)
\* days explored beyond the first
MaxDay == 1
\* the values an aggregate or a count of messages takes
MaxCount == 1
\* calls of getTodayStats in flight together
MaxReaders == 2

StatDays == 0..MaxDay
ReaderIds == 1..MaxReaders

\* lines 14-41: the counters of the schema
AggregateFields == {"total_counterparties", "total_debtors", "total_debt",
                    "total_profit", "registered_users", "active_users"}
CounterFields == AggregateFields \cup {"messages_sent_today"}

\* this.create({ date: today }): the schema's defaults (0) for the counters
NewStats(date) ==
    [f \in CounterFields \cup {"date"} |-> IF f = "date" THEN date ELSE 0]

\* the positions in the collection of the documents with this date
Found(coll, date) == {n \in 1..Len(coll) : coll[n]["date"] = date}

\* (mutation of SetFields: the document replaced by the update document)
ReplaceFields(doc, data) ==
    [f \in DOMAIN doc |-> IF f \in DOMAIN data THEN data[f]
                          ELSE IF f = "date" THEN doc[f] ELSE 0]

\* lines 78-82: the update document {...data} of findOneAndUpdate sets the
\* fields it names
SetFields(doc, data) ==
    [f \in DOMAIN doc |-> IF f \in DOMAIN data THEN data[f] ELSE doc[f]]

\* lines 9-13: unique: true on date.  An insert of a second document with
\* the date is refused (the collection is left as it is)
Insert(coll, doc) ==
    IF Found(coll, doc["date"]) # {} THEN coll ELSE Append(coll, doc)

\* updateStats (lines 74-83): findOneAndUpdate({date: today}, {...data},
\* {upsert: true})
FindOneAndUpdate(coll, date, data) ==
    IF Found(coll, date) # {}
    THEN LET n == CHOOSE m \in Found(coll, date) :
                     \A k \in Found(coll, date) : m <= k
         IN  [coll EXCEPT ![n] = SetFields(@, data)]
    ELSE Insert(coll, SetFields(NewStats(date), data))

\* what a statistics refresh hands to updateStats (part_004:29-36)
RefreshData(a) == [f \in AggregateFields |-> a]

\* what a reminder sender hands to updateStats (part_003:178-180)
SentData(sent) == [f \in {"messages_sent_today"} |-> sent]

\* no call of getTodayStats in flight
NoReader == [pc |-> "idle", date |-> 0]

StatInit ==
    /\ stcoll = <<>>
    /\ today = 0
    /\ gt = [k \in ReaderIds |-> NoReader]

\* a statistics refresh reaches its updateStats call
RefreshStats ==
    /\ \E a \in 1..MaxCount :
         stcoll' = FindOneAndUpdate(stcoll, today, RefreshData(a))
    /\ UNCHANGED <<today, gt>>
    /\ UNCHANGED <<rlVars, schedVars, lookupVars, bcVars, pageVars, phoneVars,
                   admVars, timeVars>>

\* a sweep or POST /admin/send-reminders reaches its updateStats call
SentStats ==
    /\ \E sent \in 0..MaxCount :
         stcoll' = FindOneAndUpdate(stcoll, today, SentData(sent))
    /\ UNCHANGED <<today, gt>>
    /\ UNCHANGED <<rlVars, schedVars, lookupVars, bcVars, pageVars, phoneVars,
                   admVars, timeVars>>

\* getTodayStats lines 58-63: findOne({date: today}) answers
GetTodayStatsFind(k) ==
    /\ gt[k].pc = "idle"
    /\ gt' = [gt EXCEPT ![k] = IF Found(stcoll, today) = {}
                               THEN [pc |-> "create", date |-> today]
                               ELSE NoReader]
    /\ UNCHANGED <<stcoll, today>>
    /\ UNCHANGED <<rlVars, schedVars, lookupVars, bcVars, pageVars, phoneVars,
                   admVars, timeVars>>

\* getTodayStats lines 64-66: create({date: today}) answers (today is the
\* local of line 59)
GetTodayStatsCreate(k) ==
    /\ gt[k].pc = "create"
    /\ stcoll' = Insert(stcoll, NewStats(gt[k].date))
    /\ gt' = [gt EXCEPT ![k] = NoReader]
    /\ UNCHANGED today
    /\ UNCHANGED <<rlVars, schedVars, lookupVars, bcVars, pageVars, phoneVars,
                   admVars, timeVars>>

\* midnight passes
DayPasses ==
    /\ today < MaxDay
    /\ today' = today + 1
    /\ UNCHANGED <<stcoll, gt>>
    /\ UNCHANGED <<rlVars, schedVars, lookupVars, bcVars, pageVars, phoneVars,
                   admVars, timeVars>>

StatNext ==
    \/ RefreshStats
    \/ SentStats
    \/ \E k \in ReaderIds : GetTodayStatsFind(k)
    \/ \E k \in ReaderIds : GetTodayStatsCreate(k)
    \/ DayPasses

(***************************************************************************)
(* BROADCASTS  (src/unnamed/part_004: routes/admin.routes.js, lines        *)
(* 906-1056; src/src/models/Broadcast.js)                                  *)
(*                                                                         *)
(* bdoc is the stored document of one broadcast (status "none": not yet    *)
(* created).  sreq[j] is one POST /admin/broadcast/:id/send request: pc    *)
(* "new", "found" (line 957 answered, awaiting the save of line 973),      *)
(* "done".  run[r] is one call of sendBroadcast: run 0 is started by POST  *)
(* /admin/broadcast with send_now, run j by request j.  A run holds its    *)
(* own copy of the document (doc) with the paths it modified since its     *)
(* last save (dirty); n is users.length and idx the users handled.  pc:    *)
(* "idle", "find" (line 992), "users" (lines 998-1008), "saveTotal" (line  *)
(* 1011), "send" (line 1022), "saveSent" (line 1027), "saveFailed" (line   *)
(* 1032), "saveDone" (line 1042), "catchFind" (line 1050), "catchSave"     *)
(* (line 1053), "done", "rejected" (the promise of sendBroadcast rejected: *)
(* lines 929, 976).  Requests are handled concurrently: each await is a    *)
(* step, and any database operation may throw.                             *)
(***************************************************************************)
\* POST /admin/broadcast/:id/send requests explored
MaxSendReqs == 2
\* users a broadcast goes to, at most
MaxTargets == 2

ReqIds == 1..MaxSendReqs
RunIds == 0..MaxSendReqs

Fields == {"status", "sent_count", "failed_count", "total_count"}

NoDoc == [status |-> "none", sent_count |-> 0, failed_count |-> 0,
          total_count |-> 0]

\* Broadcast.create (part_004:918-925) with the schema's defaults
\* (Broadcast.js:33-44)
NewDoc(status) == [NoDoc EXCEPT !.status = status]

\* document.save() (lines 973, 1011, 1027, 1032, 1042, 1053): the paths
\* modified on this copy are written to the stored document
SaveDoc(db, local, dirty) ==
    [f \in Fields |-> IF f \in dirty THEN local[f] ELSE db[f]]

NewReq == [pc |-> "new", doc |-> NoDoc]

NewRun == [pc |-> "idle", doc |-> NoDoc, dirty |-> {}, n |-> 0, idx |-> 0]

BcInit ==
    /\ bdoc = NoDoc
    /\ sreq = [j \in ReqIds |-> NewReq]
    /\ run = [r \in RunIds |-> NewRun]

\* lines 1018 and 1040: the next user, or status = "completed"
AfterUser(rn) ==
    IF rn.idx < rn.n
    THEN [rn EXCEPT !.pc = "send"]
    ELSE [rn EXCEPT !.pc = "saveDone", !.doc.status = "completed",
                    !.dirty = @ \cup {"status"}]

\* POST /admin/broadcast (lines 906-949)
CreateBroadcast ==
    /\ bdoc.status = "none"
    /\ \E sendNow \in BOOLEAN :
         /\ bdoc' = NewDoc(IF sendNow THEN "sending" ELSE "draft")
         /\ run' = IF sendNow THEN [run EXCEPT ![0].pc = "find"] ELSE run
    /\ UNCHANGED sreq
    /\ UNCHANGED <<rlVars, schedVars, lookupVars, pageVars, phoneVars,
                   admVars, statVars, timeVars>>

\* POST /admin/broadcast/:id/send, lines 957-972
SendReqFind(j) ==
    /\ sreq[j].pc = "new"
    /\ \A k \in 1..(j - 1) : sreq[k].pc # "new"
    /\ bdoc.status # "none"
    /\ \E threw \in BOOLEAN :
         sreq' = [sreq EXCEPT ![j] =
                    IF threw \/ bdoc.status # "draft"
                    THEN [@ EXCEPT !.pc = "done"]
                    ELSE [pc |-> "found",
                          doc |-> [bdoc EXCEPT !.status = "sending"]]]
    /\ UNCHANGED <<bdoc, run>>
    /\ UNCHANGED <<rlVars, schedVars, lookupVars, pageVars, phoneVars,
                   admVars, statVars, timeVars>>

\* POST /admin/broadcast/:id/send, lines 973-984
SendReqSave(j) ==
    /\ sreq[j].pc = "found"
    /\ sreq' = [sreq EXCEPT ![j].pc = "done"]
    /\ \E threw \in BOOLEAN :
         IF threw
         THEN UNCHANGED <<bdoc, run>>
         ELSE /\ bdoc' = SaveDoc(bdoc, sreq[j].doc, {"status"})
              /\ run' = [run EXCEPT ![j].pc = "find"]
    /\ UNCHANGED <<rlVars, schedVars, lookupVars, pageVars, phoneVars,
                   admVars, statVars, timeVars>>

\* sendBroadcast, lines 992-993
RunFind(r) ==
    /\ run[r].pc = "find"
    /\ \E threw \in BOOLEAN :
         run' = [run EXCEPT ![r] =
                   IF threw THEN [@ EXCEPT !.pc = "catchFind"]
                   ELSE [@ EXCEPT !.pc = "users", !.doc = bdoc, !.dirty = {}]]
    /\ UNCHANGED <<bdoc, sreq>>
    /\ UNCHANGED <<rlVars, schedVars, lookupVars, pageVars, phoneVars,
                   admVars, statVars, timeVars>>

\* sendBroadcast, lines 995-1010: the target users are read
RunUsers(r) ==
    /\ run[r].pc = "users"
    /\ \E threw \in BOOLEAN, n \in 0..MaxTargets :
         run' = [run EXCEPT ![r] =
                   IF threw THEN [@ EXCEPT !.pc = "catchFind"]
                   ELSE [@ EXCEPT !.pc = "saveTotal", !.n = n, !.idx = 0,
                                  !.doc.total_count = n,
                                  !.dirty = @ \cup {"total_count"}]]
    /\ UNCHANGED <<bdoc, sreq>>
    /\ UNCHANGED <<rlVars, schedVars, lookupVars, pageVars, phoneVars,
                   admVars, statVars, timeVars>>

\* sendBroadcast, line 1011
RunSaveTotal(r) ==
    /\ run[r].pc = "saveTotal"
    /\ \E threw \in BOOLEAN :
         IF threw
         THEN /\ run' = [run EXCEPT ![r].pc = "catchFind"]
              /\ UNCHANGED bdoc
         ELSE /\ bdoc' = SaveDoc(bdoc, run[r].doc, run[r].dirty)
              /\ run' = [run EXCEPT ![r] = AfterUser([@ EXCEPT !.dirty = {}])]
    /\ UNCHANGED sreq
    /\ UNCHANGED <<rlVars, schedVars, lookupVars, pageVars, phoneVars,
                   admVars, statVars, timeVars>>

\* sendBroadcast, lines 1018-1026 and 1030-1031: the rate-limited send
\* resolves (sent_count++) or rejects (failed_count++)
RunSend(r) ==
    /\ run[r].pc = "send"
    /\ \E ok \in BOOLEAN :
         run' = [run EXCEPT ![r] =
                   IF ok
                   THEN [@ EXCEPT !.pc = "saveSent", !.idx = @ + 1,
                                  !.doc.sent_count = @ + 1,
                                  !.dirty = @ \cup {"sent_count"}]
                   ELSE [@ EXCEPT !.pc = "saveFailed", !.idx = @ + 1,
                                  !.doc.failed_count = @ + 1,
                                  !.dirty = @ \cup {"failed_count"}]]
    /\ UNCHANGED <<bdoc, sreq>>
    /\ UNCHANGED <<rlVars, schedVars, lookupVars, pageVars, phoneVars,
                   admVars, statVars, timeVars>>

\* sendBroadcast, line 1027; a throw is caught at line 1030
RunSaveSent(r) ==
    /\ run[r].pc = "saveSent"
    /\ \E threw \in BOOLEAN :
         IF threw
         THEN /\ run' = [run EXCEPT ![r].pc = "saveFailed",
                                    ![r].doc.failed_count = @ + 1,
                                    ![r].dirty = @ \cup {"failed_count"}]
              /\ UNCHANGED bdoc
         ELSE /\ bdoc' = SaveDoc(bdoc, run[r].doc, run[r].dirty)
              /\ run' = [run EXCEPT ![r] = AfterUser([@ EXCEPT !.dirty = {}])]
    /\ UNCHANGED sreq
    /\ UNCHANGED <<rlVars, schedVars, lookupVars, pageVars, phoneVars,
                   admVars, statVars, timeVars>>

\* sendBroadcast, line 1032; a throw leaves the loop for line 1047
RunSaveFailed(r) ==
    /\ run[r].pc = "saveFailed"
    /\ \E threw \in BOOLEAN :
         IF threw
         THEN /\ run' = [run EXCEPT ![r].pc = "catchFind"]
              /\ UNCHANGED bdoc
         ELSE /\ bdoc' = SaveDoc(bdoc, run[r].doc, run[r].dirty)
              /\ run' = [run EXCEPT ![r] = AfterUser([@ EXCEPT !.dirty = {}])]
    /\ UNCHANGED sreq
    /\ UNCHANGED <<rlVars, schedVars, lookupVars, pageVars, phoneVars,
                   admVars, statVars, timeVars>>

\* sendBroadcast, lines 1040-1046
RunSaveDone(r) ==
    /\ run[r].pc = "saveDone"
    /\ \E threw \in BOOLEAN :
         IF threw
         THEN /\ run' = [run EXCEPT ![r].pc = "catchFind"]
              /\ UNCHANGED bdoc
         ELSE /\ bdoc' = SaveDoc(bdoc, run[r].doc, run[r].dirty)
              /\ run' = [run EXCEPT ![r].pc = "done", ![r].dirty = {}]
    /\ UNCHANGED sreq
    /\ UNCHANGED <<rlVars, schedVars, lookupVars, pageVars, phoneVars,
                   admVars, statVars, timeVars>>

\* sendBroadcast, lines 1047-1052: the catch block reads the document anew
RunCatchFind(r) ==
    /\ run[r].pc = "catchFind"
    /\ \E threw \in BOOLEAN :
         run' = [run EXCEPT ![r] =
                   IF threw THEN [@ EXCEPT !.pc = "rejected"]
                   ELSE [@ EXCEPT !.pc = "catchSave",
                                  !.doc = [bdoc EXCEPT !.status = "failed"],
                                  !.dirty = {"status"}]]
    /\ UNCHANGED <<bdoc, sreq>>
    /\ UNCHANGED <<rlVars, schedVars, lookupVars, pageVars, phoneVars,
                   admVars, statVars, timeVars>>

\* sendBroadcast, lines 1052-1055
RunCatchSave(r) ==
    /\ run[r].pc = "catchSave"
    /\ \E threw \in BOOLEAN :
         IF threw
         THEN /\ run' = [run EXCEPT ![r].pc = "rejected"]
              /\ UNCHANGED bdoc
         ELSE /\ bdoc' = SaveDoc(bdoc, run[r].doc, run[r].dirty)
              /\ run' = [run EXCEPT ![r].pc = "done", ![r].dirty = {}]
    /\ UNCHANGED sreq
    /\ UNCHANGED <<rlVars, schedVars, lookupVars, pageVars, phoneVars,
                   admVars, statVars, timeVars>>

BcNext ==
    \/ CreateBroadcast
    \/ \E j \in ReqIds : SendReqFind(j)
    \/ \E j \in ReqIds : SendReqSave(j)
    \/ \E r \in RunIds : RunFind(r)
    \/ \E r \in RunIds : RunUsers(r)
    \/ \E r \in RunIds : RunSaveTotal(r)
    \/ \E r \in RunIds : RunSend(r)
    \/ \E r \in RunIds : RunSaveSent(r)
    \/ \E r \in RunIds : RunSaveFailed(r)
    \/ \E r \in RunIds : RunSaveDone(r)
    \/ \E r \in RunIds : RunCatchFind(r)
    \/ \E r \in RunIds : RunCatchSave(r)

(***************************************************************************)
(* COUNTERPARTY LISTING                                                    *)
(*   (src/src/services/moysklad.service.js, lines 290-382)                 *)
(*                                                                         *)
(* srv is the MoySklad side: total, the number of counterparties in the    *)
(* collection.  pg is one call of getAllCounterpartiesWithBalances: pc     *)
(* ("idle"; "fetch": awaiting getAllCounterparties, line 329; "details":   *)
(* the page's rows are being completed, lines 337-364; "done"), the locals *)
(* offset and hasMore, data (the page last received), collected (length    *)
(* of allCounterparties).  History: pages, the requests made, each with    *)
(* its limit and offset and the number of rows it returned.  Rows are      *)
(* counted, not listed.                                                    *)
(***************************************************************************)
\* collection sizes explored: 0, RowUnit, ..., MaxUnits * RowUnit
RowUnit == 500
MaxUnits == 6

\* moysklad.service.js:323  const limit = 1000
Limit == 1000

\* GET /entity/counterparty?limit=&offset= answered by MoySklad: the rows of
\* the page and the list's meta, whose size is the size of the whole list
Page(total, limit, offset) ==
    [rows |-> Max(0, Min(limit, total - offset)),
     meta |-> [present |-> TRUE, size |-> total]]

\* getAllCounterparties (lines 290-312): the response's JSON, or
\* {rows: [], meta: {}} on a non-2xx status or a network error
GetAllCounterparties(total, limit, offset, ok) ==
    IF ok THEN Page(total, limit, offset)
    ELSE [rows |-> 0, meta |-> [present |-> FALSE, size |-> 0]]

\* line 331: if (!data.rows || data.rows.length === 0)
EmptyPage(data) == data.rows = 0

\* lines 362-364: if (data.meta && data.meta.size < limit) hasMore = false
HasMoreAfter(data, limit) == ~(data.meta.present /\ data.meta.size < limit)

NoData == [rows |-> 0, meta |-> [present |-> FALSE, size |-> 0]]

NewListing == [pc |-> "idle", offset |-> 0, hasMore |-> FALSE,
               data |-> NoData, collected |-> 0, pages |-> <<>>]

PageInit ==
    /\ srv \in [total : {u * RowUnit : u \in 0..MaxUnits}]
    /\ pg = NewListing

\* getAllCounterpartiesWithBalances is called: lines 319-328
StartListing ==
    /\ pg.pc = "idle"
    /\ pg' = [pg EXCEPT !.pc = "fetch", !.offset = 0, !.hasMore = TRUE]
    /\ UNCHANGED srv
    /\ UNCHANGED <<rlVars, schedVars, lookupVars, bcVars, phoneVars, admVars,
                   statVars, timeVars>>

\* lines 328-334: a page is requested and answered
FetchPage ==
    /\ pg.pc = "fetch"
    /\ \E ok \in BOOLEAN :
         LET data == GetAllCounterparties(srv.total, Limit, pg.offset, ok)
             asked == Append(pg.pages, [limit |-> Limit, offset |-> pg.offset,
                                        rows |-> data.rows])
         IN  pg' = IF EmptyPage(data)
                   THEN [pg EXCEPT !.pc = "done", !.hasMore = FALSE,
                                   !.data = data, !.pages = asked]
                   ELSE [pg EXCEPT !.pc = "details", !.data = data,
                                   !.pages = asked]
    /\ UNCHANGED srv
    /\ UNCHANGED <<rlVars, schedVars, lookupVars, bcVars, phoneVars, admVars,
                   statVars, timeVars>>

\* lines 337-369: the rows' details are fetched (a row whose details come
\* back null is left out), the offset moves on, hasMore is decided
PageDetails ==
    /\ pg.pc = "details"
    /\ \E kept \in {0, pg.data.rows} :
         LET more == HasMoreAfter(pg.data, Limit) IN
         pg' = [pg EXCEPT !.collected = @ + kept,
                          !.offset = @ + Limit,
                          !.hasMore = more,
                          !.pc = IF more THEN "fetch" ELSE "done"]
    /\ UNCHANGED srv
    /\ UNCHANGED <<rlVars, schedVars, lookupVars, bcVars, phoneVars, admVars,
                   statVars, timeVars>>

PageNext == StartListing \/ FetchPage \/ PageDetails

(***************************************************************************)
(* PHONE NORMALIZATION                                                     *)
(*   (src/src/models/User.js, lines 106-121; a second definition of        *)
(*   User.normalizePhone at src/src/models/Statistics.js, lines 283-298)   *)
(*                                                                         *)
(* A string is a sequence of one-character strings.  ph is one call: the   *)
(* input with the national number it was written from and whether the      *)
(* country code was written (history), which definition ran (by) and the   *)
(* result.                                                                 *)
(***************************************************************************)
\* leading digits of the national number that vary over FreeChoices
FreeDigits == 3

\* User.js:114  cleaned.length === 9
NationalLen == 9

DigitChars == {"0", "1", "2", "3", "4", "5", "6", "7", "8", "9"}

FreeChoices == {"9", "8", "1"}

\* the digits that follow the varying ones
FixedTail == <<"2", "3", "4", "5", "6", "7", "0", "1">>

\* User.js:112  "998"
CountryCode == <<"9", "9", "8">>

Nationals ==
    {[k \in 1..NationalLen |->
         IF k <= FreeDigits THEN f[k] ELSE FixedTail[k - FreeDigits]] :
       f \in [1..FreeDigits -> FreeChoices]}

Separators == {"none", "space", "dash", "paren"}

\* a number as users and Telegram write it: +998 97 912 61 61,
\* +998-97-912-61-61, +998 (97) 912-61-61, 998979126161
Written(prefix, sep, n) ==
    LET g1 == SubSeq(n, 1, 2)
        g2 == SubSeq(n, 3, 5)
        g3 == SubSeq(n, 6, 7)
        g4 == SubSeq(n, 8, Len(n))
    IN  CASE sep = "none" -> prefix \o n
          [] sep = "space" ->
               prefix \o <<" ">> \o g1 \o <<" ">> \o g2 \o <<" ">> \o g3
                      \o <<" ">> \o g4
          [] sep = "dash" ->
               prefix \o <<"-">> \o g1 \o <<"-">> \o g2 \o <<"-">> \o g3
                      \o <<"-">> \o g4
          [] sep = "paren" ->
               prefix \o <<" ", "(">> \o g1 \o <<")", " ">> \o g2 \o <<"-">>
                      \o g3 \o <<"-">> \o g4

PhoneInputs ==
    {[text |-> Written(pre, sep, n), national |-> n, prefixed |-> TRUE] :
        pre \in {<<"+">> \o CountryCode, CountryCode},
        sep \in Separators, n \in Nationals}
    \cup {[text |-> n, national |-> n, prefixed |-> FALSE] : n \in Nationals}

IsDigit(c) == c \in DigitChars

IsDigitOrPlus(c) == c \in DigitChars \/ c = "+"

\* String.prototype.startsWith
StartsWith(s, p) == Len(s) >= Len(p) /\ SubSeq(s, 1, Len(p)) = p

\* String.prototype.trim (spaces are the only white space written here)
RECURSIVE Trim(_)
Trim(s) ==
    IF s = <<>> THEN s
    ELSE IF Head(s) = " " THEN Trim(Tail(s))
    ELSE IF s[Len(s)] = " " THEN Trim(SubSeq(s, 1, Len(s) - 1))
    ELSE s

\* User.normalizePhone (User.js:107-121)
NormalizePhone(phone) ==
    LET cleaned == SelectSeq(phone, IsDigit) IN
    IF StartsWith(cleaned, CountryCode) THEN <<"+">> \o cleaned
    ELSE IF Len(cleaned) = NationalLen THEN <<"+">> \o CountryCode \o cleaned
    ELSE IF ~StartsWith(cleaned, <<"+">>) THEN <<"+">> \o cleaned
    ELSE cleaned

\* User.normalizePhone as defined a second time (Statistics.js:284-298)
NormalizePhoneCopy(phone) ==
    LET normalized == SelectSeq(Trim(phone), IsDigitOrPlus) IN
    IF StartsWith(normalized, CountryCode)
       /\ ~StartsWith(normalized, <<"+">> \o CountryCode)
    THEN <<"+">> \o normalized
    ELSE normalized

NewPhone(in) == [pc |-> "new", input |-> in, by |-> "none", result |-> <<>>]

PhoneInit == ph \in {NewPhone(in) : in \in PhoneInputs}

\* User.normalizePhone(phone), User.js
CallNormalizePhone ==
    /\ ph.pc = "new"
    /\ ph' = [ph EXCEPT !.pc = "done", !.by = "User.js",
                        !.result = NormalizePhone(ph.input.text)]
    /\ UNCHANGED <<rlVars, schedVars, lookupVars, bcVars, pageVars, admVars,
                   statVars, timeVars>>

\* User.normalizePhone(phone), the second definition
CallNormalizePhoneCopy ==
    /\ ph.pc = "new"
    /\ ph' = [ph EXCEPT !.pc = "done", !.by = "Statistics.js",
                        !.result = NormalizePhoneCopy(ph.input.text)]
    /\ UNCHANGED <<rlVars, schedVars, lookupVars, bcVars, pageVars, admVars,
                   statVars, timeVars>>

PhoneNext == CallNormalizePhone \/ CallNormalizePhoneCopy

(***************************************************************************)
(* THE SEND TIME AS TEXT  (src/unnamed/part_004: POST                      *)
(* /admin/settings/send-time, lines 1088-1118; src/unnamed/part_003:       *)
(* getCurrentTime, lines 22-36, and the comparison of line 136)            *)
(*                                                                         *)
(* Texts are sequences of characters.  tm is one value posted as           *)
(* send_time: input is the text, pc "new", "rejected" or "stored"; stored  *)
(* is the GLOBAL_SEND_TIME setting once the text was accepted; current is  *)
(* what getCurrentTime returned at the latest tick and matched whether a   *)
(* tick's comparison with the stored text has succeeded.                   *)
(***************************************************************************)
\* the hours and minutes of the wall clock
ClockHours == 0..23
ClockMinutes == 0..59

DigitText == <<"0", "1", "2", "3", "4", "5", "6", "7", "8", "9">>

\* String(n).padStart(2, "0") for n < 100  (part_003:32-33)
PadStart2(n) == <<DigitText[(n \div 10) + 1], DigitText[(n % 10) + 1]>>

\* getCurrentTime, line 35: `${hours}:${minutes}`
GetCurrentTimeText(h, m) == PadStart2(h) \o <<":">> \o PadStart2(m)

\* the hour part of the pattern: [0-1]?[0-9]|2[0-3]
HourPattern(t) ==
    \/ Len(t) = 1 /\ IsDigit(t[1])
    \/ Len(t) = 2 /\ t[1] \in {"0", "1"} /\ IsDigit(t[2])
    \/ Len(t) = 2 /\ t[1] = "2" /\ t[2] \in {"0", "1", "2", "3"}

\* the minute part of the pattern: [0-5][0-9]
MinutePattern(t) ==
    Len(t) = 2 /\ t[1] \in {"0", "1", "2", "3", "4", "5"} /\ IsDigit(t[2])

\* line 1092: /^([0-1]?[0-9]|2[0-3]):[0-5][0-9]$/.test(send_time)
SendTimePattern(t) ==
    \E k \in 1..Len(t) :
        /\ t[k] = ":"
        /\ HourPattern(SubSeq(t, 1, k - 1))
        /\ MinutePattern(SubSeq(t, k + 1, Len(t)))

\* the hour and minute parts the posted texts are made of
HourTexts == {<<"9">>, <<"0">>, <<"0", "9">>, <<"1", "9">>, <<"2", "3">>,
              <<"2", "4">>, <<"0", "0">>, <<>>}
MinuteTexts == {<<"0", "0">>, <<"0", "5">>, <<"5", "9">>, <<"6", "0">>,
                <<"5">>}

SendTimeInputs ==
    {ht \o <<":">> \o mt : ht \in HourTexts, mt \in MinuteTexts} \cup {<<>>}

\* the minutes of the hour at which ticks are looked at
TickMinutes == {0, 5, 59}

NewTime(in) == [pc |-> "new", input |-> in, stored |-> <<>>,
                current |-> <<>>, matched |-> FALSE]

TimeInit == tm \in {NewTime(in) : in \in SendTimeInputs}

\* POST /admin/settings/send-time, lines 1088-1103
PostSendTime ==
    /\ tm.pc = "new"
    /\ LET send_time == tm.input IN
       IF send_time = <<>> \/ ~SendTimePattern(send_time)
       THEN tm' = [tm EXCEPT !.pc = "rejected"]
       ELSE tm' = [tm EXCEPT !.pc = "stored", !.stored = send_time]
    /\ UNCHANGED <<rlVars, schedVars, lookupVars, bcVars, pageVars, phoneVars,
                   admVars, statVars>>

\* a tick of the scheduler with the setting stored: part_003:122-139
TickAt ==
    /\ tm.pc = "stored"
    /\ \E h \in ClockHours, m \in TickMinutes :
         LET currentTime == GetCurrentTimeText(h, m) IN
         tm' = [tm EXCEPT !.current = currentTime,
                          !.matched = @ \/ TimeMatches(currentTime, tm.stored)]
    /\ UNCHANGED <<rlVars, schedVars, lookupVars, bcVars, pageVars, phoneVars,
                   admVars, statVars>>

TimeNext == PostSendTime \/ TickAt

\* The parts a specification does not exercise rest in one state of theirs.
RLRest == RLInit /\ maxPerSecond = MaxCap /\ ~trackWindow

PageRest == PageInit /\ srv.total = 0

PhoneRest ==
    ph = NewPhone([text |-> <<>>, national |-> <<>>, prefixed |-> FALSE])

TimeRest == tm = NewTime(<<>>)

AdminRest ==
    BcInit /\ PageRest /\ PhoneRest /\ AdmInit /\ StatInit /\ TimeRest

SchedRest ==
    SchedInit /\ sendTime = 0 /\ \A u \in UserIds : users[u].is_active

InitRL == RLInit /\ ~trackWindow /\ SchedRest /\ LookupInit /\ AdminRest

SpecRL == InitRL /\ [][RLNext]_vars

\* the rate limiter with the starts of the last second recorded
InitRLWindow ==
    RLInit /\ trackWindow /\ SchedRest /\ LookupInit /\ AdminRest

SpecRLWindow == InitRLWindow /\ [][RLNext]_vars

\* Timers fire and tasks settle: the event loop runs every due callback.
FairSpecRL ==
    /\ SpecRL
    /\ WF_vars(WakeLimit)
    /\ WF_vars(TaskSettle)
    /\ WF_vars(WakeSpacing)
    /\ WF_vars(AdvanceTime)

\* the first k users are active, for some k up to n
ActiveAtMost(n) ==
    \E k \in 0..n : \A u \in UserIds : users[u].is_active = (u <= k)

InitSched ==
    RLRest /\ SchedInit /\ ActiveAtMost(MaxActive) /\ LookupInit /\ AdminRest

SpecSched == InitSched /\ [][SchedNext]_vars

\* Every pending await of execute() and processUser is answered, by a
\* result or by an error.
ExecFairness ==
    \A i \in ExecIds :
        /\ WF_vars(SettingsGet(i)) /\ WF_vars(FindUsers(i))
        /\ WF_vars(Lookup(i)) /\ WF_vars(Send(i))
        /\ WF_vars(Save(i)) /\ WF_vars(Stats(i))

FairSpecSched == SpecSched /\ ExecFairness

\* the sweeps over all the users, every one of them active, while the
\* admin leaves the send time alone
InitSweep ==
    /\ RLRest /\ SchedInit /\ LookupInit /\ AdminRest
    /\ \A u \in UserIds : users[u].is_active

SweepNext ==
    \/ \E i \in ExecIds : CronTick(i)
    \/ \E i \in ExecIds : SettingsGet(i)
    \/ \E i \in ExecIds : FindUsers(i)
    \/ \E i \in ExecIds : Lookup(i)
    \/ \E i \in ExecIds : Send(i)
    \/ \E i \in ExecIds : Save(i)
    \/ \E i \in ExecIds : Stats(i)

SpecSweep == InitSweep /\ [][SweepNext]_vars

FairSpecSweep == SpecSweep /\ ExecFairness

\* the sweeps together with the admin's reminder requests
RemindersNext == SweepNext \/ AdmNext

\* the process is started in the minute before the last tick explored,
\* with every user active
InitReminders ==
    /\ RLRest /\ LookupInit /\ BcInit /\ PageRest /\ PhoneRest /\ AdmInit
    /\ StatInit /\ TimeRest
    /\ isRunning = FALSE
    /\ minute = MaxMinute - 1
    /\ sendTime \in 0..(DayLen - 1)
    /\ users = [u \in UserIds |-> [is_active |-> TRUE, last_sent_at |-> -1]]
    /\ ex = [i \in ExecIds |-> NewExec]
    /\ statsSent = [d \in Days |-> 0]
    /\ sweepLog = [d \in Days |-> 0]
    /\ statsLog = NoUpdate

SpecReminders == InitReminders /\ [][RemindersNext]_vars

InitStats ==
    /\ RLRest /\ SchedRest /\ LookupInit /\ BcInit /\ PageRest /\ PhoneRest
    /\ AdmInit /\ StatInit /\ TimeRest

SpecStats == InitStats /\ [][StatNext]_vars

InitSendTime ==
    /\ RLRest /\ SchedRest /\ LookupInit /\ BcInit /\ PageRest /\ PhoneRest
    /\ AdmInit /\ StatInit /\ TimeInit

SpecSendTime == InitSendTime /\ [][TimeNext]_vars

InitLookup == RLRest /\ SchedRest /\ LookupInit /\ AdminRest

SpecLookup == InitLookup /\ [][LookupNext]_vars

\* the lookup together with the admin's TTL setting and process restarts
CacheTTLNext == LookupNext \/ SettingsSystemStore \/ SettingsSystemApply \/ Restart

SpecCacheTTL == InitLookup /\ [][CacheTTLNext]_vars

InitBroadcast ==
    RLRest /\ SchedRest /\ LookupInit /\ BcInit /\ PageRest /\ PhoneRest /\ AdmInit /\ StatInit /\ TimeRest

SpecBroadcast == InitBroadcast /\ [][BcNext]_vars

\* Every pending request and every pending await of sendBroadcast is
\* answered, by a result or by an error.
FairSpecBroadcast ==
    /\ SpecBroadcast
    /\ \A j \in ReqIds : WF_vars(SendReqFind(j)) /\ WF_vars(SendReqSave(j))
    /\ \A r \in RunIds :
         /\ WF_vars(RunFind(r)) /\ WF_vars(RunUsers(r))
         /\ WF_vars(RunSaveTotal(r)) /\ WF_vars(RunSend(r))
         /\ WF_vars(RunSaveSent(r)) /\ WF_vars(RunSaveFailed(r))
         /\ WF_vars(RunSaveDone(r)) /\ WF_vars(RunCatchFind(r))
         /\ WF_vars(RunCatchSave(r))

InitListing ==
    RLRest /\ SchedRest /\ LookupInit /\ BcInit /\ PageInit /\ PhoneRest /\ AdmInit /\ StatInit /\ TimeRest

SpecListing == InitListing /\ [][PageNext]_vars

InitPhone ==
    RLRest /\ SchedRest /\ LookupInit /\ BcInit /\ PageRest /\ PhoneInit /\ AdmInit /\ StatInit /\ TimeRest

SpecPhone == InitPhone /\ [][PhoneNext]_vars

(***************************************************************************)
(* PROPERTIES                                                              *)
(***************************************************************************)

InSweep(e) ==
    e.pc \in {"settings", "findUsers", "lookup", "send", "save", "stats"}

\* C1: a call of execute() made while an earlier call is past the guard
\* returns at once, having looked up no balance, processed no user and
\* submitted no reminder; at most one call is past the guard at any time.
C1_SingleSweep ==
    /\ Cardinality({i \in ExecIds : InSweep(ex[i])}) <= 1
    /\ \A i \in ExecIds :
         ex[i].outcome = "skipped_running" =>
            /\ ex[i].pc = "done"
            /\ ex[i].lookups = 0 /\ ex[i].submits = 0
            /\ ex[i].idx = 0 /\ ex[i].snapshot = <<>>
            /\ ex[i].sent = 0 /\ ex[i].skipped = 0 /\ ex[i].failed = 0

\* a tick was skipped while another call is in the middle of its user sweep
C1_Witness ==
    \E i, j \in ExecIds :
        /\ ex[i].outcome = "skipped_running"
        /\ ex[j].pc \in {"lookup", "send", "save"}

\* C2 (as claimed): the number of tasks started within any rolling window of
\* one second never exceeds maxPerSecond.  recent holds the starts of the
\* last WindowMs.
C2_RollingWindowCap == Len(recent) <= maxPerSecond

\* C3: tasks start in the order of their schedule() calls (ids are given in
\* that order), and a task starts only after every task submitted before
\* it has started and its promise has been settled.
C3_FifoOrder ==
    /\ \A n \in 1..Len(started) : started[n] = n
    /\ \A n \in 1..Len(started) :
         n < Len(started) => promise[started[n]].state # "pending"

\* three tasks were started, the later two submitted while the first ran
C3_Witness ==
    /\ Len(started) = 3
    /\ arrivedAt[2] = "running"
    /\ arrivedAt[3] = "running"

StartCount(t) == Cardinality({n \in 1..Len(started) : started[n] = t})

\* C4: every task passed to schedule() is eventually started, exactly once,
\* and its promise settled; no task is ever started twice.
C4_EveryTaskSettlesOnce ==
    /\ [](\A t \in TaskIds : StartCount(t) <= 1)
    /\ \A t \in TaskIds :
         (submitted >= t) ~> (StartCount(t) = 1 /\ promise[t].state # "pending")

\* a task submitted during the loop's last 40 ms sleep (queue empty), and one
\* submitted after the loop had ended, were both settled
C4_Witness ==
    \E t, u \in TaskIds :
        /\ t > 1 /\ u > 1
        /\ arrivedAt[t] = "lastSleep" /\ promise[t].state # "pending"
        /\ arrivedAt[u] = "idle" /\ promise[u].state # "pending"

\* C5: a task that returned v resolves its own promise with v, a task that
\* threw e rejects its own promise with e, no other promise is touched, and
\* the drain loop stays alive while tasks are queued.
C5_OwnOutcome ==
    /\ \A t \in TaskIds :
         /\ taskDid[t] = "ok" => promise[t] = [state |-> "resolved", payload |-> t]
         /\ taskDid[t] = "throw" => promise[t] = [state |-> "rejected", payload |-> t]
         /\ taskDid[t] = "none" => promise[t] = Pending
    /\ rlpc # "dead"
    /\ queue # <<>> => processing /\ rlpc \in {"limitWait", "running", "spacing"}

\* the first task threw and a task queued behind it returned its value
C5_Witness ==
    /\ taskDid[1] = "throw"
    /\ arrivedAt[2] = "running"
    /\ taskDid[2] = "ok"
    /\ promise[2] = [state |-> "resolved", payload |-> 2]
    /\ promise[1] = [state |-> "rejected", payload |-> 1]

\* C6: a lookup with useCache whose Cache.get found an unexpired document
\* returns that document's payload, with no API request and no cache write.
C6_CacheHitShortCircuits ==
    \A i \in CallIds :
        LET c == call[i] IN
        (c.cacheReads > 0 /\ c.sawEntry # NoEntry /\ c.sawEntry.expiresAt > c.readAt)
            => /\ c.pc = "done"
               /\ c.result = c.sawEntry.data
               /\ c.apiCalls = 0
               /\ c.cacheWrites = 0

\* a lookup hit a document written earlier, some time after it was written
C6_Witness ==
    \E i \in CallIds :
        /\ call[i].pc = "done"
        /\ call[i].sawEntry # NoEntry
        /\ call[i].sawEntry.expiresAt > call[i].readAt
        /\ call[i].readAt > 0
        /\ call[i].result # Null

\* C7: after Cache.set(key, value, ttl) at time t0 (and no later delete),
\* Cache.get(key) gives value at every time before t0 + ttl and null from
\* t0 + ttl on, whether or not the TTL monitor has removed the document.
C7_GetAfterSet ==
    \A k \in CacheKeys :
        lastSet[k] # NoEntry =>
            IF now < lastSet[k].at + lastSet[k].ttl * 1000
            THEN CacheGet(cache, k, now) = lastSet[k].value
            ELSE CacheGet(cache, k, now) = Null

\* an expired document is still in the collection
C7_Witness ==
    \E k \in CacheKeys :
        /\ lastSet[k] # NoEntry
        /\ now >= lastSet[k].at + lastSet[k].ttl * 1000
        /\ cache[k] # NoEntry

\* the minor-unit amount a finished details fetch was given
AmountGiven(c) ==
    IF c.report = "ok" /\ Len(c.rows) > 0 THEN c.rows[1]
    ELSE FirstAccountBalance(c.cp.accounts)

\* C8: a lookup with useCache = false makes no cache read; its result is
\* null or the record built from the API responses of this very call.
C8_NoCacheRead ==
    \A i \in CallIds :
        LET c == call[i] IN
        (c.pc # "new" /\ ~c.useCache) =>
            /\ c.cacheReads = 0
            /\ c.sawEntry = NoEntry
            /\ c.pc = "done" =>
                 /\ c.apiCalls >= 1
                 /\ \/ c.result = Null
                    \/ /\ c.apiCalls = 3
                       /\ c.result.id = c.phone
                       /\ c.result.isBlocked = c.cp.archived
                       /\ c.result.balance.num * 100
                            = AmountGiven(c) * c.result.balance.den

\* a lookup with useCache = false returned a record while the cache held an
\* unexpired document with another content under its key
C8_Witness ==
    \E i \in CallIds :
        LET c == call[i]
            k == CacheKey(c.phone)
        IN  /\ c.pc = "done"
            /\ ~c.useCache
            /\ c.result # Null
            /\ cache[k] # NoEntry
            /\ cache[k].expiresAt > now
            /\ cache[k].data # c.result

\* C9: when the phone search gives no rows, a non-2xx status or a network
\* error, the lookup returns null after that one request, without the
\* detail request and without a cache write; null is never in the cache.
C9_SearchFailureGivesNull ==
    /\ \A i \in CallIds :
         LET c == call[i] IN
         c.search \in {"empty", "non2xx", "neterr"} =>
            /\ c.pc = "done"
            /\ c.result = Null
            /\ c.apiCalls = 1
            /\ c.detail = "none"
            /\ c.cacheWrites = 0
    /\ \A k \in CacheKeys : cache[k] # NoEntry => cache[k].data # Null

\* a lookup with the cache in use missed the cache and ended on a non-2xx
\* answer of the search
C9_Witness ==
    \E i \in CallIds :
        /\ call[i].pc = "done"
        /\ call[i].useCache
        /\ call[i].cacheReads = 1
        /\ call[i].search = "non2xx"

\* C10: when the counterparty fetch succeeded and the report request got a
\* non-2xx status, getCounterpartyDetails gives the normalized record whose
\* balance is the first embedded account's balance / 100 (0 without one).
C10_ReportFailureFallsBack ==
    \A i \in CallIds :
        LET c == call[i]
            acct == FirstAccountBalance(c.cp.accounts)
        IN  (c.detail = "ok" /\ c.report = "non2xx") =>
              /\ c.pc \in {"cacheSet", "done"}
              /\ c.details # Null
              /\ DOMAIN c.details
                   = {"id", "name", "phone", "balance", "status", "isBlocked"}
              /\ c.details.id = c.basic.id
              /\ c.details.isBlocked = c.cp.archived
              /\ c.details.balance.den > 0
              /\ c.details.balance.num * 100 = acct * c.details.balance.den
              /\ c.details.status = (IF acct < 0 THEN "debtor"
                                     ELSE IF acct > 0 THEN "creditor" ELSE "ok")
              /\ c.pc = "done" => c.result = c.details

\* the fallback produced a debtor from an embedded account balance
C10_Witness ==
    \E i \in CallIds :
        /\ call[i].detail = "ok"
        /\ call[i].report = "non2xx"
        /\ call[i].pc = "done"
        /\ call[i].cp.accounts # <<>>
        /\ call[i].result # Null
        /\ call[i].result.status = "debtor"

\* C11: every record getCounterpartyDetails gives, whichever way the balance
\* was obtained (report row, embedded account after a report without the
\* row, embedded account after a non-2xx report), has balance = the
\* minor-unit amount / 100 and status debtor / creditor / ok by the sign of
\* that balance.
C11_BalanceAndStatus ==
    \A i \in CallIds :
        LET c == call[i]
            d == c.details
        IN  (c.detail = "ok" /\ c.report \in {"ok", "non2xx"}) =>
              /\ d # Null
              /\ d.balance.den > 0
              /\ d.balance.num * MinorPerUnit = AmountGiven(c) * d.balance.den
              /\ d.balance.num < 0 => d.status = "debtor"
              /\ d.balance.num > 0 => d.status = "creditor"
              /\ d.balance.num = 0 => d.status = "ok"

\* the report held the counterparty's row with a positive amount that is no
\* multiple of 100, and the record came out as a creditor
C11_Witness ==
    \E i \in CallIds :
        LET c == call[i] IN
        /\ c.pc = "done"
        /\ c.report = "ok"
        /\ Len(c.rows) > 0
        /\ c.rows[1] > 0
        /\ c.rows[1] % MinorPerUnit # 0
        /\ c.result # Null
        /\ c.result.status = "creditor"

\* C12 (as claimed): on no calendar day does more than one scheduled call
\* go past the send-time comparison and start a sweep.
C12_OneSweepPerDay == \A d \in Days : sweepLog[d] <= 1

\* the call of a tick found its HH:mm different from the send time it read
Mismatched(e) == e.target # -1 /\ e.currentTime # e.target

C14_Classification ==
    \A i \in ExecIds :
        LET e == ex[i] IN
        /\ e.sent + e.skipped + e.failed = e.processed
        /\ e.failed = e.sendErrors
        /\ e.skipped >= e.notFound

\* C15 (as claimed): a user whose Telegram send failed during a sweep keeps
\* the last_sent_at held before the sweep and is counted among the failed.
C15_SendFailureCounted ==
    \A i \in ExecIds :
        LET e == ex[i] IN
        /\ \A u \in e.undelivered : users[u].last_sent_at < e.tick
        /\ e.pc \in {"stats", "done"} => e.failed >= Cardinality(e.undelivered)

\* C16: the Statistics record a sweep updated holds that sweep's sent count
\* in messages_sent_today, whatever it held before, and a finished sweep
\* that processed users is the one whose count is stored.
C16_StatsOverwritten ==
    /\ statsLog.day # -1 => statsSent[statsLog.day] = statsLog.sent
    /\ \A i \in ExecIds :
         (ex[i].pc = "done" /\ ex[i].outcome = "swept") =>
            /\ ex[i].processed >= 1
            /\ statsLog.day # -1
            /\ statsLog.sent = ex[i].sent
            /\ statsSent[statsLog.day] = ex[i].sent

\* a sweep that sent nothing finished on a day whose record held a positive
\* count from an earlier sweep
C16_Witness ==
    /\ statsLog.day # -1
    /\ statsLog.before > 0
    /\ statsLog.sent = 0
    /\ \E i \in ExecIds : ex[i].pc = "done" /\ ex[i].outcome = "swept"

\* the moves of a broadcast's status the lifecycle allows (creation included)
LifecycleMoves ==
    {<<"none", "draft">>, <<"none", "sending">>, <<"draft", "sending">>,
     <<"sending", "completed">>, <<"sending", "failed">>}

\* C17 (as claimed): the stored status changes only along draft -> sending
\* -> completed | failed, and a broadcast that is in sending comes to
\* completed or failed.
C17_Lifecycle ==
    /\ [][bdoc'.status # bdoc.status
            => <<bdoc.status, bdoc'.status>> \in LifecycleMoves]_vars
    /\ (bdoc.status = "sending") ~> (bdoc.status \in {"completed", "failed"})

\* C18 (as claimed): the stored counters satisfy sent_count + failed_count
\* <= total_count, and a completed broadcast has sent_count + failed_count
\* = total_count = the number of users a run targeted.
C18_Counters ==
    /\ bdoc.sent_count + bdoc.failed_count <= bdoc.total_count
    /\ bdoc.status = "completed" =>
         /\ bdoc.sent_count + bdoc.failed_count = bdoc.total_count
         /\ \E r \in RunIds : run[r].pc = "done" /\ run[r].n = bdoc.total_count

\* C19 (as claimed): the pages are requested with limit 1000 at offsets 0,
\* 1000, 2000, ...; no page is requested after one that returned fewer rows
\* than the limit, so a collection of n rows takes at most n \div 1000 + 1
\* requests.
C19_StopsAtShortPage ==
    /\ \A k \in 1..Len(pg.pages) :
         /\ pg.pages[k].limit = Limit
         /\ pg.pages[k].offset = (k - 1) * Limit
    /\ \A k \in 1..(Len(pg.pages) - 1) : pg.pages[k].rows >= Limit
    /\ Len(pg.pages) <= srv.total \div Limit + 1

\* C20 (as claimed): an input written with the country code (with or
\* without "+", with spaces, dashes or parentheses) and an input of the
\* nine national digits alone both give "+998" followed by the nine
\* national digits (User.normalizePhone as models/User.js defines it).
C20_Canonical ==
    (ph.pc = "done" /\ ph.by = "User.js") =>
        ph.result = <<"+">> \o CountryCode \o ph.input.national

\* C21: every call of getCounterpartyByPhone that fetched from the API and
\* obtained a counterparty record has written that record to the cache
\* entry of its phone, whatever its useCache argument.
C21_FetchRefreshesCache ==
    \A i \in CallIds :
        LET c == call[i] IN
        (c.pc = "done" /\ c.apiCalls > 0 /\ c.details # Null) =>
            c.cacheWrites = 1

\* Settings.get("CACHE_TTL", 300): the persisted value, or the default
EffectiveTTL(setting) == IF setting = NoSetting THEN DefaultCacheTTL ELSE setting

\* C22: every cache write of getCounterpartyByPhone uses as its TTL the
\* persisted CACHE_TTL setting if there is one and 300 seconds otherwise,
\* also after a restart that follows an update of the setting (the TTL is
\* looked at in the step that calls Cache.set).
C22_WriteUsesPersistedTTL ==
    [][\A i \in CallIds :
          (call[i].pc # "cacheSet" /\ call'[i].pc = "cacheSet") =>
              call'[i].ttl = EffectiveTTL(ttlSetting)]_vars

\* the ids of the users active in the database
ActiveIds == {u \in UserIds : users[u].is_active}

\* the sweep of call e has taken the results of exactly the first n users
\* of its list
TookFirst(e, n) == e.processed = n /\ e.sent + e.skipped + e.failed = n

\* C23: a sweep (a tick at the send time, no other sweep in progress, the
\* send time and the list of active users read) walks its list of the users
\* active at its start in order, taking one result per user, and reaches
\* the end of the list with every user processed, whatever the results of
\* the users before (not found, send failed, save failed).
C23_SweepProcessesAll ==
    /\ [](\A i \in ExecIds :
            LET e == ex[i] IN
            /\ e.pc \in {"lookup", "send", "save"} =>
                 /\ {e.snapshot[n].id : n \in 1..Len(e.snapshot)} = ActiveIds
                 /\ Len(e.snapshot) = Cardinality(ActiveIds)
                 /\ e.idx \in 1..Len(e.snapshot)
                 /\ TookFirst(e, e.idx - 1)
            /\ e.pc = "stats" => TookFirst(e, Len(e.snapshot)))
    /\ \A i \in ExecIds :
         (ex[i].pc = "lookup") ~> (ex[i].pc = "stats")

\* a sweep is at its second user after the first one's result was a failure
C23_Witness ==
    \E i \in ExecIds :
        /\ ex[i].pc = "lookup"
        /\ ex[i].idx = 2
        /\ ex[i].failed = 1

\* the reminder being sent with locals counterparty and debtAmount is for a
\* debt: the lookup returned a record with a negative balance, and the
\* amount is its absolute value
ForDebt(counterparty, debtAmount) ==
    /\ counterparty \notin {Null, NoLookup}
    /\ counterparty.balance < 0
    /\ debtAmount = -counterparty.balance
    /\ debtAmount > 0

LoopActive == rlpc # "idle"

\* C25: the rate limiter has one consumer.  The processing flag is set
\* exactly while a drain loop is active; a schedule() call that arrives
\* while a loop is active only appends to the queue (it starts no second
\* loop and no task); one task at most is executing, and a task is started
\* only when every task started before it has settled.
C25_SingleConsumer ==
    /\ [](/\ processing = LoopActive
          /\ (current # 0) = (rlpc = "running")
          /\ Cardinality({t \in TaskIds :
                 /\ \E n \in 1..Len(started) : started[n] = t
                 /\ promise[t].state = "pending"}) <= 1)
    /\ [][/\ (submitted' # submitted /\ LoopActive) =>
               /\ queue' = Append(queue, submitted')
               /\ UNCHANGED <<rlpc, current, timer, started, processing>>
          /\ (started' # started) =>
               \A n \in 1..Len(started) :
                   promise[started[n]].state # "pending"]_vars

\* a schedule() call arrived while a task was executing, and the task it
\* brought was started later
C25_Witness ==
    \E t \in TaskIds :
        /\ arrivedAt[t] = "running"
        /\ \E n \in 2..Len(started) : started[n] = t

\* the value of counter f on the record of day d (the schema's default
\* where there is no record)
StatOf(d, f) ==
    IF Found(stcoll, d) = {} THEN 0
    ELSE stcoll[CHOOSE n \in Found(stcoll, d) : TRUE][f]

\* C26: a statistics refresh leaves messages_sent_today of every day's
\* record as it was, a reminder sender's write leaves the six aggregates
\* of every day's record as they were, and the collection never holds two
\* records with the same date.
C26_WritersKeepApart ==
    /\ [](\A d \in StatDays : Cardinality(Found(stcoll, d)) <= 1)
    /\ [][/\ RefreshStats =>
               \A d \in StatDays :
                   StatOf(d, "messages_sent_today")' =
                       StatOf(d, "messages_sent_today")
          /\ SentStats =>
               \A d \in StatDays : \A f \in AggregateFields :
                   StatOf(d, f)' = StatOf(d, f)]_vars

\* today's record holds aggregates written by a refresh and a message
\* count written by a reminder sender
C26_Witness ==
    /\ StatOf(today, "messages_sent_today") > 0
    /\ StatOf(today, "total_debtors") > 0
    /\ today > 0

\* call e of execute() has passed the guard of line 114 and has not ended
InProgress(e) == e.pc \notin {"new", "done"}

\* C27: isRunning is set exactly while a call of execute() that passed the
\* guard is in progress, so it is false again after every such call,
\* however the call ended (time mismatch, no active users, completed sweep,
\* exception); a tick is skipped only while such a call is in progress; and
\* the flag, once set, is always released.
C27_FlagReleased ==
    /\ [](/\ isRunning = (\E i \in ExecIds : InProgress(ex[i]))
          /\ Cardinality({i \in ExecIds : InProgress(ex[i])}) <= 1)
    /\ [][\A i \in ExecIds :
            (ex'[i] # ex[i] /\ ex'[i].outcome = "skipped_running") =>
                \E j \in ExecIds : InProgress(ex[j])]_vars
    /\ isRunning ~> ~isRunning

\* a tick was skipped while a call was in progress, that call ended by an
\* exception, and the flag is released
C27_Witness ==
    /\ ~isRunning
    /\ \E i, j \in ExecIds :
         /\ ex[i].pc = "done" /\ ex[i].outcome = "error"
         /\ ex[j].pc = "done" /\ ex[j].outcome = "skipped_running"

\* the sendBroadcast runs that were started
StartedRuns == {r \in RunIds : run[r].pc # "idle"}

\* C28 (as claimed): at most one sendBroadcast run is ever started for the
\* broadcast, also when two send requests for the draft are interleaved.
C28_OneDeliveryRun == Cardinality(StartedRuns) <= 1

\* the admin's send to all is between its User.find and its last user
AdmBatchInProgress == adm.kind = "all" /\ adm.pc \in {"lookup", "send"}

\* C29 (as claimed): a scheduled sweep and the admin's send to all are never
\* in progress together, so the two never have a reminder for the same user
\* under way at once.
C29_NoOverlap ==
    \A i \in ExecIds :
        ~(ex[i].pc \in {"lookup", "send", "save"} /\ AdmBatchInProgress)

\* C30 (as claimed): for every send time the validation accepted and stored
\* there is a minute of the day at which getCurrentTime() returns exactly
\* the stored text, so that the comparison of the scheduler succeeds.
C30_AcceptedCanMatch ==
    tm.pc = "stored" =>
        \E h \in ClockHours, m \in ClockMinutes :
            TimeMatches(GetCurrentTimeText(h, m), tm.stored)

====
